---- MODULE Spec2Model ----
(***************************************************************************)
(* The write-batch subsystem of deps/rocksdb/db/write_batch.cc: the byte   *)
(* encoding of a WriteBatch (rep_), its replay by WriteBatch::Iterate      *)
(* through a Handler, and the MemTableInserter handler that applies the    *)
(* replayed records to a memtable.                                         *)
(* Further down: the stress harness of deps/rocksdb/tools/db_stress.cc and *)
(* the two-level iterator of deps/rocksdb/table/two_level_iterator.cc,     *)
(* each with variables and specifications of its own.                      *)
(*                                                                         *)
(* Bytes are the naturals 0..255, a buffer (std::string, Slice) is a       *)
(* sequence of bytes.                                                      *)
(***************************************************************************)
EXTENDS Integers, Sequences, FiniteSets, TLC

VARIABLES
    rep,    \* WriteBatch::rep_ of the batch under construction / replay
    log,    \* history: the mutation calls made on rep since it was last empty
    src,    \* rep_ of a second batch, the source of Append
    srclog, \* history: the mutation calls that built src
    op,     \* history: the last operation performed, with its arguments
    h,      \* the handler object after the last Iterate (NoHandler before)
    st,     \* the Status returned by the last Iterate ("none" before)
    prev,   \* history: h and st of the Iterate before the last one on the
            \* same bytes with the same handler, NoRun otherwise
    raw,    \* history: how the bytes last given to SetContents differ from src
    FLAGS,  \* tools/db_stress.cc: the command-line flags of the stress run
    shared, \* the SharedState object: mu_, cv_, counters, values_, key_locks_
    test,   \* the StressTest object: db_, num_times_reopened_
    thread, \* per worker thread: its position in ThreadBody and its locals
    run,    \* the position of StressTest::Run in the main thread
    exit_,  \* how the process ended early ("no" while it has not)
    table,  \* table/two_level_iterator.cc: the index and data blocks iterated
    it,     \* the TwoLevelIterator object
    itop    \* history: the last positioning call made on it

batchVars == <<rep, log, src, srclog, op, h, st, prev, raw>>
stressVars == <<FLAGS, shared, test, thread, run, exit_>>
iterVars == <<table, it, itop>>
vars == <<batchVars, stressVars, iterVars>>

\* no stress harness has been constructed
NoHarness ==
    /\ FLAGS = <<>>
    /\ shared = <<>>
    /\ test = <<>>
    /\ thread = <<>>
    /\ run = "none"
    /\ exit_ = "no"

\* no two-level iterator has been constructed
NoIterator ==
    /\ table = <<>>
    /\ it = <<>>
    /\ itop = <<>>

---------------------------------------------------------------------------
(* Bounds of the model.                                                    *)

\* longest sequence of mutation calls made on one batch
MaxOps == 3
\* longest sequence of mutation calls that built the source of an Append
MaxSrcOps == 2
\* number of records of a batch handed to InsertInto
MaxRecs == 3
\* number of records of an externally produced batch given to SetContents
MaxRawRecs == 2

---------------------------------------------------------------------------
(* Codec primitives (util/coding.h; the layout is the one documented at    *)
(* the head of write_batch.cc).                                            *)

\* WriteBatch header has an 8-byte sequence number followed by a 4-byte count.
kHeader == 12

\* ValueType tags of db/dbformat.h
kTypeDeletion == 0
kTypeValue == 1
kTypeMerge == 2
kTypeLogData == 3

\* a varint byte carries 7 bits; lengths from VarintBase on take two bytes
VarintBase == 128

Min(a, b) == IF a < b THEN a ELSE b

RECURSIVE EncodeFixed(_, _)
\* little-endian fixed-width encoding of n in w bytes
EncodeFixed(n, w) ==
    IF w = 0 THEN <<>> ELSE <<n % 256>> \o EncodeFixed(n \div 256, w - 1)

RECURSIVE DecodeFixed(_)
\* little-endian decoding of all the bytes of s
DecodeFixed(s) ==
    IF s = <<>> THEN 0 ELSE s[1] + 256 * DecodeFixed(Tail(s))

EncodeFixed32(n) == EncodeFixed(n, 4)
DecodeFixed32(s) == DecodeFixed(SubSeq(s, 1, 4))
EncodeFixed64(n) == EncodeFixed(n, 8)
DecodeFixed64(s) == DecodeFixed(SubSeq(s, 1, 8))

RECURSIVE PutVarint32(_)
\* the varint32 bytes of n: 7 bits a byte, low group first, high bit = more
PutVarint32(n) ==
    IF n < VarintBase THEN <<n>>
    ELSE <<(n % VarintBase) + VarintBase>> \o PutVarint32(n \div VarintBase)

RECURSIVE GetVarint32From(_, _, _)
\* decode a varint32 at the head of input; weight is 128^(bytes read so far),
\* at most 5 bytes are read
GetVarint32From(input, weight, nread) ==
    IF input = <<>> \/ nread >= 5 THEN [ok |-> FALSE, value |-> 0, rest |-> input]
    ELSE IF input[1] >= VarintBase
         THEN LET r == GetVarint32From(Tail(input), weight * VarintBase, nread + 1)
              IN  [ok |-> r.ok,
                   value |-> (input[1] - VarintBase) * weight + r.value,
                   rest |-> r.rest]
         ELSE [ok |-> TRUE, value |-> input[1] * weight, rest |-> Tail(input)]

GetVarint32(input) == GetVarint32From(input, 1, 0)

\* PutLengthPrefixedSlice(dst, value): dst with the varstring of value appended
PutLengthPrefixedSlice(dst, value) == dst \o PutVarint32(Len(value)) \o value

RECURSIVE Concat(_)
\* the bytes of a SliceParts, in order
Concat(parts) == IF parts = <<>> THEN <<>> ELSE Head(parts) \o Concat(Tail(parts))

RECURSIVE TotalSize(_)
TotalSize(parts) == IF parts = <<>> THEN 0 ELSE Len(Head(parts)) + TotalSize(Tail(parts))

RECURSIVE AppendParts(_, _)
AppendParts(dst, parts) ==
    IF parts = <<>> THEN dst ELSE AppendParts(dst \o Head(parts), Tail(parts))

\* PutLengthPrefixedSliceParts(dst, parts): the total length, then each part
PutLengthPrefixedSliceParts(dst, parts) ==
    AppendParts(dst \o PutVarint32(TotalSize(parts)), parts)

\* GetLengthPrefixedSlice(input, result): a varint32 length, then that many
\* bytes; fails when the length is malformed or exceeds what is left
GetLengthPrefixedSlice(input) ==
    LET len == GetVarint32(input)
    IN  IF len.ok /\ Len(len.rest) >= len.value
        THEN [ok |-> TRUE,
              slice |-> SubSeq(len.rest, 1, len.value),
              rest |-> SubSeq(len.rest, len.value + 1, Len(len.rest))]
        ELSE [ok |-> FALSE, slice |-> <<>>, rest |-> input]

---------------------------------------------------------------------------
(* The write batch container.                                              *)

\* a Clear that leaves a byte of the sequence field set
Clear_dirty == [i \in 1..kHeader |-> IF i = 1 THEN 1 ELSE 0]

\* a Clear that stops after rep_.clear()
Clear_noResize == <<>>

\* WriteBatch::Clear: rep_.clear(); rep_.resize(kHeader), which on an empty
\* string gives kHeader zero bytes
Clear == [i \in 1..kHeader |-> 0]

\* WriteBatch::WriteBatch(reserved_bytes): reserve changes no byte
WriteBatch == Clear

Count(b) == DecodeFixed32(SubSeq(b, 9, Len(b)))

SetCount(b, n) == SubSeq(b, 1, 8) \o EncodeFixed32(n) \o SubSeq(b, 13, Len(b))

Sequence(b) == DecodeFixed64(b)

SetSequence(b, seq) == EncodeFixed64(seq) \o SubSeq(b, 9, Len(b))

Put(b, key, value) ==
    PutLengthPrefixedSlice(
        PutLengthPrefixedSlice(Append(SetCount(b, Count(b) + 1), kTypeValue), key),
        value)

RECURSIVE PutEachPart(_, _)
\* every fragment written with a length of its own
PutEachPart(dst, parts) ==
    IF parts = <<>> THEN dst
    ELSE PutEachPart(PutLengthPrefixedSlice(dst, Head(parts)), Tail(parts))

\* a Put of fragments that writes them as separate slices
PutParts_perPart(b, key, value) ==
    PutEachPart(PutEachPart(Append(SetCount(b, Count(b) + 1), kTypeValue), key), value)

\* WriteBatch::Put(const SliceParts& key, const SliceParts& value)
PutParts(b, key, value) ==
    PutLengthPrefixedSliceParts(
        PutLengthPrefixedSliceParts(Append(SetCount(b, Count(b) + 1), kTypeValue), key),
        value)

Delete(b, key) ==
    PutLengthPrefixedSlice(Append(SetCount(b, Count(b) + 1), kTypeDeletion), key)

\* a Merge that writes the tag of Put
Merge_tagValue(b, key, value) ==
    PutLengthPrefixedSlice(
        PutLengthPrefixedSlice(Append(SetCount(b, Count(b) + 1), kTypeValue), key),
        value)

Merge(b, key, value) ==
    PutLengthPrefixedSlice(
        PutLengthPrefixedSlice(Append(SetCount(b, Count(b) + 1), kTypeMerge), key),
        value)

\* a PutLogData that counts the blob like a point mutation
PutLogData_counted(b, blob) ==
    PutLengthPrefixedSlice(Append(SetCount(b, Count(b) + 1), kTypeLogData), blob)

PutLogData(b, blob) == PutLengthPrefixedSlice(Append(b, kTypeLogData), blob)

\* WriteBatchInternal::SetContents(b, contents): the bytes are adopted as given
SetContents(b, contents) == contents

\* an Append that leaves dst's count as it was
Append_countKept(dst, s) ==
    [dst |-> dst \o SubSeq(s, kHeader + 1, Len(s)), src |-> s]

\* an Append that does not skip src's header
Append_withHeader(dst, s) ==
    [dst |-> SetCount(dst, Count(dst) + Count(s)) \o s, src |-> s]

\* WriteBatchInternal::Append(dst, src): counts summed, src's body appended
\* (the result names both batches: src is const)
WriteBatchInternal_Append(dst, s) ==
    [dst |-> SetCount(dst, Count(dst) + Count(s)) \o SubSeq(s, kHeader + 1, Len(s)),
     src |-> s]

---------------------------------------------------------------------------
(* Handlers.  A handler object is a record; kind names its class.          *)
(*   "recorder": a handler that records every call it receives; when stops *)
(*               is set its Continue() turns false once stopAfter calls    *)
(*               were recorded, otherwise it keeps the default (true);     *)
(*   "inserter": MemTableInserter.                                         *)

NoHandler == [kind |-> "none"]

Recorder(stops, stopAfter) ==
    [kind |-> "recorder", calls |-> <<>>, stops |-> stops, stopAfter |-> stopAfter,
     asked |-> 0]

PutCall(key, value) == [op |-> "Put", key |-> key, value |-> value]
DeleteCall(key) == [op |-> "Delete", key |-> key]
MergeCall(key, value) == [op |-> "Merge", key |-> key, value |-> value]
LogDataCall(blob) == [op |-> "LogData", blob |-> blob]

\* the calls that are point mutations (all but LogData)
IsPoint(c) == c.op # "LogData"
PointCalls(calls) == SelectSeq(calls, IsPoint)

Recorder_Continue(r) == ~r.stops \/ Len(r.calls) < r.stopAfter

Recorder_Call(r, c) == [r EXCEPT !.calls = Append(@, c)]

(* ---- the collaborators of MemTableInserter ---------------------------- *)
(* The memtable is the sequence of its entries in insertion order.  The    *)
(* store's point read, the may-exist probe, the update callback and the    *)
(* merge operator are outside this file: what they answer to the n-th      *)
(* point mutation of a replay is given by the n-th response of an oracle.  *)

Entry(seq, type, key, value) ==
    [seq |-> seq, type |-> type, key |-> key, value |-> value]

\* MemTable::Add
MemTable_Add(mem, seq, type, key, value) == Append(mem, Entry(seq, type, key, value))

\* positions of the entries of key visible at sequence seq
EntriesOf(mem, key, seq) ==
    {i \in 1..Len(mem) : mem[i].key = key /\ mem[i].seq <= seq}

Max(S) == CHOOSE x \in S : \A y \in S : y <= x

\* position of the newest entry of key visible at seq (0: none); among equal
\* sequence numbers the one inserted last
Newest(mem, key, seq) ==
    LET P == EntriesOf(mem, key, seq)
    IN  IF P = {} THEN 0
        ELSE Max({i \in P : \A j \in P : mem[j].seq <= mem[i].seq})

RECURSIVE MergesBelow(_, _, _)
\* number of consecutive Merge entries of key from position set P downward,
\* newest first
MergesBelow(mem, key, P) ==
    IF P = {} THEN 0
    ELSE LET i == Max(P)
         IN  IF mem[i].type = kTypeMerge
             THEN 1 + MergesBelow(mem, key, P \ {i})
             ELSE 0

\* MemTable::CountSuccessiveMergeEntries(LookupKey(key, seq))
CountSuccessiveMergeEntries(mem, key, seq) ==
    MergesBelow(mem, key, EntriesOf(mem, key, seq))

\* the value the store's Get returns for a key that it finds
StoredValue == <<112>>

\* what the update callback leaves in the previous buffer (UPDATED_INPLACE):
\* the new value written over it, as far as it fits
InplaceResult(prevv, value) == SubSeq(value, 1, Min(Len(prevv), Len(value)))

\* what the update callback puts in merged_value (UPDATED)
MergedResult(prevv, value) == prevv \o value

\* what MergeOperator::FullMerge computes when it succeeds
FullMergeResult(existing, operands) == existing \o Concat(operands)

\* the entries of key visible at sequence seq, oldest first
KeyEntries(mem, key, seq) ==
    SelectSeq(mem, LAMBDA e : e.key = key /\ e.seq <= seq)

RECURSIVE PendingOperands(_)
\* the operands of the Merge entries at the head of a key's chain, oldest first
PendingOperands(es) ==
    IF es = <<>> \/ es[Len(es)].type # kTypeMerge THEN <<>>
    ELSE Append(PendingOperands(SubSeq(es, 1, Len(es) - 1)), es[Len(es)].value)

\* the value under the pending operands: the newest Value entry, nothing under
\* a Deletion, and below the memtable what the store holds
BaseValue(es, stored) ==
    LET under == SubSeq(es, 1, Len(es) - Len(PendingOperands(es)))
    IN  IF under = <<>>
        THEN [ok |-> stored, value |-> IF stored THEN StoredValue ELSE <<>>]
        ELSE IF under[Len(under)].type = kTypeValue
        THEN [ok |-> TRUE, value |-> under[Len(under)].value]
        ELSE [ok |-> FALSE, value |-> <<>>]

\* DBImpl::Get(ropts, key, &value) with ropts.snapshot->number_ = snapshot: the
\* pending operands visible at the snapshot are folded over the base value;
\* the read fails, leaving the buffer empty, when there are operands and the
\* merge operator is missing or fails (has_operator false)
DBImpl_Get(mem, key, snapshot, stored, has_operator) ==
    LET es == KeyEntries(mem, key, snapshot)
        ops == PendingOperands(es)
        base == BaseValue(es, stored)
    IN  IF ops = <<>> THEN base
        ELSE IF has_operator
        THEN [ok |-> TRUE, value |-> FullMergeResult(base.value, ops)]
        ELSE [ok |-> FALSE, value |-> <<>>]

DefaultResp == [tbl |-> FALSE, get |-> FALSE, cb |-> "UPDATE_FAILED",
                may |-> TRUE, merge |-> TRUE]

(* ---- MemTableInserter -------------------------------------------------- *)

NoTicks == [NUMBER_KEYS_UPDATED |-> 0, NUMBER_KEYS_WRITTEN |-> 0,
            NUMBER_MERGE_FAILURES |-> 0, NUMBER_FILTERED_DELETES |-> 0]

\* MemTableInserter::MemTableInserter(sequence, mem, opts, db, filter_deletes)
MemTableInserter(sequence, mem, opts, db, filter_deletes, oracle) ==
    [kind |-> "inserter",
     sequence_ |-> sequence,
     mem_ |-> mem,
     options_ |-> opts,
     db_ |-> db,
     filter_deletes_ |-> filter_deletes,
     ticks |-> NoTicks,
     aborted |-> FALSE,     \* a failed assert ended the process
     oracle |-> oracle,     \* the collaborators' answers, one per point mutation
     reads |-> <<>>,        \* history: the reads issued to the store
     memcalls |-> <<>>,     \* history: the calls made on the memtable
     callbacks |-> <<>>,    \* history: the invocations of inplace_callback
     fullmerges |-> <<>>,   \* history: the invocations of FullMerge
     trace |-> <<>>]        \* history: one entry per handler call

RecordTick(m, ticker) == [m EXCEPT !.ticks[ticker] = @ + 1]

\* the oracle's response to the point mutation being handled
Resp(m) ==
    LET n == Len(m.trace) + 1
    IN  IF n <= Len(m.oracle) THEN m.oracle[n] ELSE DefaultResp

\* a read that is pinned past the record being applied
ReadSnapshot_unpinned(m) == m.sequence_ + 1

\* the snapshot number a read of the handler is pinned to
ReadSnapshot(m) == m.sequence_

\* a read of the store (fn: "Get" or "KeyMayExist") through a SnapshotImpl
\* whose number_ is ReadSnapshot(m)
IssueRead(m, fn, key) ==
    [m EXCEPT !.reads = Append(@, [fn |-> fn, key |-> key,
                                   snapshot |-> ReadSnapshot(m),
                                   sequence |-> m.sequence_,
                                   call |-> Len(m.trace) + 1,
                                   memSeqs |-> {m.mem_[i].seq : i \in 1..Len(m.mem_)}])]

\* history: handler call c made on m0 took branch and left m1
Traced(m0, m1, c, branch) ==
    [m1 EXCEPT !.trace = Append(@, [call |-> c, branch |-> branch,
                                    seq |-> m0.sequence_,
                                    seqAfter |-> m1.sequence_,
                                    memBefore |-> m0.mem_,
                                    memAfter |-> m1.mem_,
                                    ticksBefore |-> m0.ticks,
                                    ticksAfter |-> m1.ticks,
                                    nreads |-> Len(m1.reads) - Len(m0.reads)])]

\* history: the handler calls fn on its memtable
MemCall(m, fn) ==
    [m EXCEPT !.memcalls = Append(@, [fn |-> fn, call |-> Len(m.trace) + 1])]

\* mem_->Add(sequence_, type, key, value)
Mem_Add(m, type, key, value) ==
    [MemCall(m, "Add") EXCEPT !.mem_ = MemTable_Add(@, m.sequence_, type, key, value)]

\* MemTable::Update(seq, key, value): overwrite the newest entry of the key in
\* place when there is a value entry and the table chooses to, else add
MemTable_Update(mem, seq, key, value, inplace) ==
    LET i == Newest(mem, key, seq)
    IN  IF i # 0 /\ mem[i].type = kTypeValue /\ inplace
        THEN [mem EXCEPT ![i].value = value]
        ELSE MemTable_Add(mem, seq, kTypeValue, key, value)

\* MemTable::UpdateCallback(seq, key, delta, options) handles the key when its
\* newest entry in the table is a value entry
UpdateCallbackHandles(mem, seq, key, found) ==
    LET i == Newest(mem, key, seq)
    IN  i # 0 /\ mem[i].type = kTypeValue /\ found

\* ... and then applies the callback's verdict inside the table
MemTable_UpdateCallback(mem, seq, key, delta, verdict) ==
    LET i == Newest(mem, key, seq)
    IN  CASE verdict = "UPDATED_INPLACE" ->
                [mem EXCEPT ![i].value = InplaceResult(mem[i].value, delta)]
          [] verdict = "UPDATED" ->
                MemTable_Add(mem, seq, kTypeValue, key, MergedResult(mem[i].value, delta))
          [] OTHER -> mem

\* a Put that leaves sequence_ alone
PutBump_none(m) == m

\* the sequence_++ that ends Put
PutBump(m) == [m EXCEPT !.sequence_ = @ + 1]

\* db_->Get(ropts, key, &value) as the handler issues it; a merge operator
\* that fails in this call fails inside the read as well
Get(m, key) ==
    DBImpl_Get(m.mem_, key, ReadSnapshot(m), Resp(m).get,
               m.options_.merge_operator /\ Resp(m).merge)

\* a callback that is handed the buffer whatever the read returned
CallbackPrev_always(s) == [some |-> TRUE, value |-> s.value]

\* the previous value handed to inplace_callback: s.ok() ? prev_buffer : nullptr
CallbackPrev(s) ==
    IF s.ok THEN [some |-> TRUE, value |-> s.value] ELSE [some |-> FALSE, value |-> <<>>]

\* history: inplace_callback(prev, prev_size, delta, &merged_value) is invoked
InvokeCallback(m, prevv, delta) ==
    [m EXCEPT !.callbacks = Append(@, [call |-> Len(m.trace) + 1,
                                       prev |-> prevv, delta |-> delta])]

\* a Put that adds whatever the options say
MemTableInserter_Put_alwaysAdd(m, key, value) ==
    Traced(m, PutBump(Mem_Add(m, kTypeValue, key, value)), PutCall(key, value), "add")

MemTableInserter_Put(m, key, value) ==
    LET r == Resp(m)
        c == PutCall(key, value)
    IN  IF ~m.options_.inplace_update_support
        THEN Traced(m, PutBump(Mem_Add(m, kTypeValue, key, value)), c, "add")
        ELSE IF ~m.options_.inplace_callback
        THEN Traced(m, PutBump(RecordTick(
                        [MemCall(m, "Update") EXCEPT !.mem_ =
                            MemTable_Update(@, m.sequence_, key, value, r.tbl)],
                        "NUMBER_KEYS_UPDATED")),
                    c, "update")
        ELSE IF UpdateCallbackHandles(m.mem_, m.sequence_, key, r.tbl)
        THEN Traced(m, PutBump([MemCall(m, "UpdateCallback") EXCEPT !.mem_ =
                        MemTable_UpdateCallback(@, m.sequence_, key, value, r.cb)]),
                    c, "table callback")
        ELSE \* key not found in memtable. Do sst get, update, add
             LET m0 == MemCall(m, "UpdateCallback")
                 s == Get(m0, key)
                 pv == CallbackPrev(s)
                 m1 == InvokeCallback(IssueRead(m0, "Get", key), pv, value)
             IN  CASE r.cb = "UPDATED_INPLACE" ->
                        Traced(m, PutBump(RecordTick(
                                Mem_Add(m1, kTypeValue, key, InplaceResult(pv.value, value)),
                                "NUMBER_KEYS_WRITTEN")),
                            c, "UPDATED_INPLACE")
                   [] r.cb = "UPDATED" ->
                        Traced(m, PutBump(RecordTick(
                                Mem_Add(m1, kTypeValue, key, MergedResult(pv.value, value)),
                                "NUMBER_KEYS_WRITTEN")),
                            c, "UPDATED")
                   [] OTHER -> Traced(m, PutBump(m1), c, "declined")

\* a Merge that leaves sequence_ alone
MergeBump_none(m) == m

\* the sequence_++ that ends Merge
MergeBump(m) == [m EXCEPT !.sequence_ = @ + 1]

\* a resolved merge that also keeps the operand as a Merge entry
MergeResolved_keepsOperand(m, key, value, new_value) ==
    Mem_Add(Mem_Add(m, kTypeValue, key, new_value), kTypeMerge, key, value)

\* 3) Add value to memtable
MergeResolved(m, key, value, new_value) == Mem_Add(m, kTypeValue, key, new_value)

\* a failed merge that is not counted
MergeFailed_uncounted(m) == m

\* Failed to merge!
MergeFailed(m) == RecordTick(m, "NUMBER_MERGE_FAILURES")

\* a threshold test that does not ask for a store
PerformMerge_withoutStore(m, key) ==
    /\ m.options_.max_successive_merges > 0
    /\ CountSuccessiveMergeEntries(m.mem_, key, m.sequence_)
            >= m.options_.max_successive_merges

\* the pending merges are counted: max_successive_merges > 0 && db_ != nullptr
CountsMerges(m) == m.options_.max_successive_merges > 0 /\ m.db_

\* perform_merge as lines 240-252 leave it
PerformMerge(m, key) ==
    /\ CountsMerges(m)
    /\ CountSuccessiveMergeEntries(m.mem_, key, m.sequence_)
            >= m.options_.max_successive_merges

\* an existing value that is none when the read found nothing
MergeExisting_checked(s) ==
    IF s.ok THEN [some |-> TRUE, value |-> s.value] ELSE [some |-> FALSE, value |-> <<>>]

\* the existing value handed to FullMerge: &get_value_slice, a Slice over the
\* read buffer whatever db_->Get returned
MergeExisting(s) == [some |-> TRUE, value |-> s.value]

\* history: merge_operator->FullMerge(key, existing, operands, &new_value, log)
InvokeFullMerge(m, existing, operands) ==
    [m EXCEPT !.fullmerges = Append(@, [call |-> Len(m.trace) + 1,
                                        existing |-> existing,
                                        operands |-> operands])]

MemTableInserter_Merge(m, key, value) ==
    LET r == Resp(m)
        c == MergeCall(key, value)
        m0 == IF CountsMerges(m) THEN MemCall(m, "CountSuccessiveMergeEntries") ELSE m
        deferred(mm, branch) ==
            Traced(m, MergeBump(Mem_Add(mm, kTypeMerge, key, value)), c, branch)
    IN  IF ~PerformMerge(m, key) THEN deferred(m0, "deferred")
        ELSE \* 1) Get the existing value
             LET m1 == IssueRead(m0, "Get", key)
                 existing == MergeExisting(Get(m0, key))
                 operands == <<value>>
                 m2 == InvokeFullMerge(m1, existing, operands)
             IN  IF ~m.options_.merge_operator
                 THEN \* assert(merge_operator)
                      Traced(m, [m1 EXCEPT !.aborted = TRUE], c, "assert")
                 ELSE IF ~r.merge
                 THEN \* Store the delta in memtable
                      deferred(MergeFailed(m2), "merge failed")
                 ELSE Traced(m, MergeBump(MergeResolved(m2, key, value,
                                    FullMergeResult(existing.value, operands))),
                             c, "merged")

\* a Delete that leaves sequence_ alone after its tombstone
DeleteBump_none(m) == m

\* the sequence_++ that ends Delete; it follows the tombstone's Add and is
\* not reached by the early return of a filtered delete
DeleteBump(m) == [m EXCEPT !.sequence_ = @ + 1]

\* a filtered delete that is not counted
DeleteFiltered_uncounted(m) == m

\* what Delete leaves of the handler when the probe reports the key absent:
\* the tick, then return
DeleteFiltered(m) == RecordTick(m, "NUMBER_FILTERED_DELETES")

MemTableInserter_Delete(m, key) ==
    LET r == Resp(m)
        c == DeleteCall(key)
        tombstone(mm, branch) ==
            Traced(m, DeleteBump(Mem_Add(mm, kTypeDeletion, key, <<>>)), c, branch)
    IN  IF m.filter_deletes_
        THEN LET m1 == IssueRead(m, "KeyMayExist", key)
             IN  IF ~r.may
                 THEN Traced(m, DeleteFiltered(m1), c, "filtered")
                 ELSE tombstone(m1, "may exist")
        ELSE tombstone(m, "add")

(* ---- dispatch of the handler's virtual functions ----------------------- *)

\* a loop that does not listen to the handler
Handler_Continue_ignored(x) == TRUE

\* Handler::Continue() returns true unless overridden; MemTableInserter does
\* not override it
Handler_Continue(x) ==
    IF x.kind = "recorder" THEN Recorder_Continue(x) ELSE TRUE

\* history: Continue() was consulted once more
Handler_Asked(x) ==
    IF x.kind = "recorder" THEN [x EXCEPT !.asked = @ + 1] ELSE x

\* a handler that overrides Put and Delete (it records them) and nothing else
PutDeleteHandler == [kind |-> "defaults", calls |-> <<>>, thrown |-> FALSE]

\* a base-class Merge that skips the record
HandlerBase_Merge_skips(x) == x

\* WriteBatch::Handler::Merge: throw std::runtime_error(...)
HandlerBase_Merge(x) == [x EXCEPT !.thrown = TRUE]

Handler_Put(x, key, value) ==
    IF x.kind \in {"recorder", "defaults"} THEN Recorder_Call(x, PutCall(key, value))
    ELSE MemTableInserter_Put(x, key, value)

Handler_Delete(x, key) ==
    IF x.kind \in {"recorder", "defaults"} THEN Recorder_Call(x, DeleteCall(key))
    ELSE MemTableInserter_Delete(x, key)

Handler_Merge(x, key, value) ==
    IF x.kind = "recorder" THEN Recorder_Call(x, MergeCall(key, value))
    ELSE IF x.kind = "defaults" THEN HandlerBase_Merge(x)
    ELSE MemTableInserter_Merge(x, key, value)

\* a LogData that takes a sequence slot in MemTableInserter
Handler_LogData_bumping(x, blob) ==
    IF x.kind = "recorder" THEN Recorder_Call(x, LogDataCall(blob))
    ELSE [x EXCEPT !.sequence_ = @ + 1]

\* Handler::LogData ignores the blob unless overridden; MemTableInserter does
\* not override it
Handler_LogData(x, blob) ==
    IF x.kind = "recorder" THEN Recorder_Call(x, LogDataCall(blob)) ELSE x

\* the process was ended inside a handler call
Handler_Aborted(x) == x.kind = "inserter" /\ x.aborted

\* an exception left a handler call
Handler_Threw(x) == x.kind = "defaults" /\ x.thrown

---------------------------------------------------------------------------
(* The dispatcher.                                                         *)

\* the result of Iterate: the Status, the handler as the calls left it, the
\* batch (Iterate is const: its rep_ as it was), and (history) the bytes not
\* consumed and the found-counter
Result(b, status, x, input, found) ==
    [status |-> status, handler |-> x, rep_ |-> b, input |-> input, found |-> found]

\* a decode failure that ends the replay without an error
Corruption_swallowed(b, msg, x, input, found) == Result(b, "OK", x, input, found)

\* a decode failure reported without the kind of the record
Corruption_unnamed(b, msg, x, input, found) ==
    Result(b, "bad WriteBatch", x, input, found)

\* a failure that undoes what the handler did
Corruption_rollingBack(b, msg, x, input, found) ==
    Result(b, msg, IF x.kind = "inserter"
                   THEN [x EXCEPT !.mem_ = <<>>, !.sequence_ = Sequence(b)]
                   ELSE x,
           input, found)

\* return Status::Corruption(msg) out of the loop
Corruption(b, msg, x, input, found) == Result(b, msg, x, input, found)

\* a count check that only notices missing records
CountCheck_atLeast(b, found) ==
    IF found < Count(b) THEN "WriteBatch has wrong count" ELSE "OK"

\* the check that follows the loop
CountCheck(b, found) ==
    IF found # Count(b) THEN "WriteBatch has wrong count" ELSE "OK"

RECURSIVE IterateLoop(_, _, _, _)
\* while (!input.empty() && handler->Continue()) { ... } and what follows it
IterateLoop(b, input, found, x) ==
    IF input = <<>> THEN Result(b, CountCheck(b, found), x, input, found)
    ELSE IF ~Handler_Continue(x)
    THEN Result(b, CountCheck(b, found), Handler_Asked(x), input, found)
    ELSE
    LET x0 == Handler_Asked(x)
        tag == input[1]
        in1 == Tail(input)
        k == GetLengthPrefixedSlice(in1)
        v == GetLengthPrefixedSlice(k.rest)
        next(x1, rest, found1) ==
            IF Handler_Aborted(x1) THEN Result(b, "aborted", x1, rest, found1)
            ELSE IF Handler_Threw(x1)
            THEN \* the exception leaves Iterate: no Status is returned
                 Result(b, "Handler::Merge not implemented!", x1, rest, found1)
            ELSE IterateLoop(b, rest, found1, x1)
    IN  CASE tag = kTypeValue ->
                IF k.ok /\ v.ok
                THEN next(Handler_Put(x0, k.slice, v.slice), v.rest, found + 1)
                ELSE Corruption(b, "bad WriteBatch Put", x0, in1, found)
          [] tag = kTypeDeletion ->
                IF k.ok
                THEN next(Handler_Delete(x0, k.slice), k.rest, found + 1)
                ELSE Corruption(b, "bad WriteBatch Delete", x0, in1, found)
          [] tag = kTypeMerge ->
                IF k.ok /\ v.ok
                THEN next(Handler_Merge(x0, k.slice, v.slice), v.rest, found + 1)
                ELSE Corruption(b, "bad WriteBatch Merge", x0, in1, found)
          [] tag = kTypeLogData ->
                IF k.ok
                THEN next(Handler_LogData(x0, k.slice), k.rest, found)
                ELSE Corruption(b, "bad WriteBatch Blob", x0, in1, found)
          [] OTHER -> Corruption(b, "unknown WriteBatch tag", x0, in1, found)

\* an Iterate that consumes rep_ itself instead of a Slice over it
Iterate_consuming(b, x) ==
    IF Len(b) < kHeader
    THEN Result(b, "malformed WriteBatch (too small)", x, b, 0)
    ELSE LET r == IterateLoop(b, SubSeq(b, kHeader + 1, Len(b)), 0, x)
         IN  [r EXCEPT !.rep_ = SubSeq(b, 1, kHeader) \o r.input]

\* WriteBatch::Iterate(handler)
Iterate(b, x) ==
    IF Len(b) < kHeader
    THEN Result(b, "malformed WriteBatch (too small)", x, b, 0)
    ELSE IterateLoop(b, SubSeq(b, kHeader + 1, Len(b)), 0, x)

\* WriteBatchInternal::InsertInto(b, mem, opts, db, filter_deletes)
InsertInto(b, mem, opts, db, filter_deletes, oracle) ==
    Iterate(b, MemTableInserter(Sequence(b), mem, opts, db, filter_deletes, oracle))

\* the records a buffer holds, as the dispatcher delivers them to a handler
\* that never stops
BodyRecords(b) == Iterate(b, Recorder(FALSE, 0)).handler.calls

---------------------------------------------------------------------------
(* Inputs.                                                                 *)

\* a value long enough for its length to take two varint bytes
BigValue == [i \in 1..VarintBase |-> 120]

Keys == {<<>>, <<107>>}
\* the arguments of Put and of Merge: <<key, value>>
PutArgs == { <<<<>>, <<>>>>, <<<<107>>, <<118>>>> }
MergeArgs == { <<<<>>, <<43, 49>>>>, <<<<107>>, <<>>>> }
Blobs == {<<>>, BigValue}
\* the fragments of a key and of a value given to Put(SliceParts, SliceParts)
\* (no fragment at all, empty fragments, and one key and value split in
\* different ways)
PartsArgs == { <<<<>>, <<>>>>,
               <<<< <<>> >>, << <<>>, <<>> >>>>,
               <<<< <<107>>, <<>>, <<108>> >>, << <<118>>, <<119>> >>>>,
               <<<< <<107, 108>> >>, << <<>>, <<118, 119>> >>>>,
               <<<< <<>>, <<107>>, <<108>> >>, << <<118>>, <<>>, <<119>>, <<>> >>>> }

NoRun == [h |-> NoHandler, st |-> "none"]

\* one mutation call made on a batch
ApplyCall(b, c) ==
    CASE c.op = "Put" -> Put(b, c.key, c.value)
      [] c.op = "Delete" -> Delete(b, c.key)
      [] c.op = "Merge" -> Merge(b, c.key, c.value)
      [] c.op = "LogData" -> PutLogData(b, c.blob)

RECURSIVE Build(_, _)
\* the batch b after the mutation calls of calls, in order
Build(b, calls) ==
    IF calls = <<>> THEN b ELSE Build(ApplyCall(b, Head(calls)), Tail(calls))

\* the sequences over A of length at most n
SeqsUpTo(A, n) == UNION {[1..m -> A] : m \in 0..n}

\* offset in rep_ of the tag of record i of Build(WriteBatch, calls)
\* (i = Len(calls) + 1: the end of the buffer)
RecordStart(calls, i) == Len(Build(WriteBatch, SubSeq(calls, 1, i - 1)))

\* the buffers a damaged copy of b is made of
NoDamage == [kind |-> "none"]
Damaged(b, d) ==
    CASE d.kind = "none" -> b
      [] d.kind = "truncate" -> SubSeq(b, 1, d.at)
      [] d.kind = "tag" -> [b EXCEPT ![d.at + 1] = d.tag]
      [] d.kind = "count" -> SetCount(b, d.to)

---------------------------------------------------------------------------
(* Spec: one writer builds a batch from the empty one; the batch is         *)
(* iterated with recording handlers.                                       *)

Init ==
    /\ rep = WriteBatch
    /\ log = <<>>
    /\ src = WriteBatch
    /\ srclog = <<>>
    /\ op = [name |-> "WriteBatch"]
    /\ h = NoHandler
    /\ st = "none"
    /\ prev = NoRun
    /\ raw = NoDamage
    /\ NoHarness
    /\ NoIterator

\* a mutation of the batch: the results of earlier replays are dropped
Mutated(b, calls, o) ==
    /\ rep' = b
    /\ log' = calls
    /\ op' = o
    /\ h' = NoHandler
    /\ st' = "none"
    /\ prev' = NoRun
    /\ UNCHANGED <<src, srclog, raw, stressVars, iterVars>>

DoPut ==
    \E a \in PutArgs :
        /\ Len(log) < MaxOps
        /\ Mutated(Put(rep, a[1], a[2]), Append(log, PutCall(a[1], a[2])),
                   [name |-> "Put", count |-> Count(rep)])

DoPutParts ==
    \E a \in PartsArgs :
        /\ Len(log) < MaxOps
        /\ Mutated(PutParts(rep, a[1], a[2]),
                   Append(log, PutCall(Concat(a[1]), Concat(a[2]))),
                   [name |-> "PutParts", count |-> Count(rep), rep |-> rep,
                    key |-> a[1], value |-> a[2]])

DoDelete ==
    \E key \in Keys :
        /\ Len(log) < MaxOps
        /\ Mutated(Delete(rep, key), Append(log, DeleteCall(key)),
                   [name |-> "Delete", count |-> Count(rep)])

DoMerge ==
    \E a \in MergeArgs :
        /\ Len(log) < MaxOps
        /\ Mutated(Merge(rep, a[1], a[2]), Append(log, MergeCall(a[1], a[2])),
                   [name |-> "Merge", count |-> Count(rep)])

DoPutLogData ==
    \E blob \in Blobs :
        /\ Len(log) < MaxOps
        /\ Mutated(PutLogData(rep, blob), Append(log, LogDataCall(blob)),
                   [name |-> "PutLogData", count |-> Count(rep)])

DoClear ==
    /\ log # <<>>
    /\ Mutated(Clear, <<>>, [name |-> "Clear", count |-> Count(rep)])

\* Iterate with a fresh recording handler
DoIterate ==
    \E stops \in BOOLEAN, stopAfter \in 0..1 :
        /\ stops \/ stopAfter = 0
        /\ \E r \in {Iterate(rep, Recorder(stops, stopAfter))} :
               /\ rep' = r.rep_
               /\ h' = r.handler
               /\ st' = r.status
               /\ prev' = IF h = NoHandler \/ h.stops # stops \/ h.stopAfter # stopAfter
                          THEN NoRun
                          ELSE [h |-> h, st |-> st]
               /\ op' = [name |-> "Iterate",
                         after |-> IF op.name = "Iterate" THEN op.after ELSE op.name,
                         rep |-> rep,
                         input |-> r.input, found |-> r.found]
        /\ UNCHANGED <<log, src, srclog, raw, stressVars, iterVars>>

Next ==
    \/ DoPut
    \/ DoPutParts
    \/ DoDelete
    \/ DoMerge
    \/ DoPutLogData
    \/ DoClear
    \/ DoIterate

Spec == Init /\ [][Next]_vars

---------------------------------------------------------------------------
(* SpecRaw: a batch produced elsewhere (src, built by srclog) reaches this *)
(* one through SetContents, possibly damaged on the way: cut short, one    *)
(* tag byte replaced, or the count field edited.  It is then iterated.     *)

RawCalls == { PutCall(<<107>>, <<118>>), DeleteCall(<<>>),
              MergeCall(<<>>, <<43, 49>>), LogDataCall(BigValue) }

\* tag bytes that name no record type
UnassignedTags == {4, 255}

\* the damages that can be done to Build(WriteBatch, calls)
Damages(calls) ==
    LET b == Build(WriteBatch, calls)
    IN  {NoDamage}
        \cup {[kind |-> "truncate", at |-> n] : n \in kHeader..(Len(b) - 1)}
        \cup {[kind |-> "tag", at |-> RecordStart(calls, i), tag |-> t, rec |-> i] :
                i \in 1..Len(calls), t \in UnassignedTags}
        \cup {[kind |-> "count", to |-> n] :
                n \in (0..(Len(calls) + 1)) \ {Count(b)}}

InitRaw ==
    /\ rep = WriteBatch
    /\ log = <<>>
    /\ srclog \in SeqsUpTo(RawCalls, MaxRawRecs)
    /\ src = Build(WriteBatch, srclog)
    /\ op = [name |-> "WriteBatch"]
    /\ h = NoHandler
    /\ st = "none"
    /\ prev = NoRun
    /\ raw = NoDamage
    /\ NoHarness
    /\ NoIterator

DoSetContents ==
    \E d \in Damages(srclog) :
        /\ op.name = "WriteBatch"
        /\ rep' = SetContents(rep, Damaged(src, d))
        /\ raw' = d
        /\ op' = [name |-> "SetContents"]
        /\ h' = NoHandler
        /\ st' = "none"
        /\ prev' = NoRun
        /\ UNCHANGED <<log, src, srclog, stressVars, iterVars>>

NextRaw ==
    \/ DoSetContents
    \/ DoIterate

SpecRaw == InitRaw /\ [][NextRaw]_vars

---------------------------------------------------------------------------
(* SpecAppend: two batches built by their writers and given sequence       *)
(* numbers; the second is appended to the first, which is then iterated.   *)

AppendCalls == { PutCall(<<107>>, <<118>>), DeleteCall(<<>>),
                 MergeCall(<<107>>, <<>>), LogDataCall(<<109>>) }

\* the sequence numbers the two batches were given
DstSequence == 5
SrcSequence == 9

InitAppend ==
    /\ log \in SeqsUpTo(AppendCalls, MaxSrcOps)
    /\ rep = SetSequence(Build(WriteBatch, log), DstSequence)
    /\ srclog \in SeqsUpTo(AppendCalls, MaxSrcOps)
    /\ src = SetSequence(Build(WriteBatch, srclog), SrcSequence)
    /\ op = [name |-> "WriteBatch"]
    /\ h = NoHandler
    /\ st = "none"
    /\ prev = NoRun
    /\ raw = NoDamage
    /\ NoHarness
    /\ NoIterator

DoAppend ==
    /\ op.name = "WriteBatch"
    /\ \E r \in {WriteBatchInternal_Append(rep, src)} :
           /\ rep' = r.dst
           /\ src' = r.src
    /\ log' = log \o srclog
    /\ op' = [name |-> "Append", dst |-> rep, src |-> src, dstlog |-> log]
    /\ h' = NoHandler
    /\ st' = "none"
    /\ prev' = NoRun
    /\ UNCHANGED <<srclog, raw, stressVars, iterVars>>

NextAppend ==
    \/ DoAppend
    \/ DoIterate

SpecAppend == InitAppend /\ [][NextAppend]_vars

---------------------------------------------------------------------------
(* SpecApply: a batch built by its writer and given a base sequence number *)
(* is applied to an empty memtable by InsertInto, under every              *)
(* configuration and every answer of the collaborators.                    *)

ApplyCalls == { PutCall(<<107>>, <<118>>), DeleteCall(<<107>>),
                MergeCall(<<107>>, <<43>>), LogDataCall(<<109>>) }

\* the base sequence number the batch was given
BaseSequence == 7

\* the successive-merge thresholds configured
Thresholds == {0, 1, 2}

\* Options as far as MemTableInserter reads them: inplace_callback and
\* merge_operator say whether one is configured
OptionsSet ==
    { o \in [inplace_update_support : BOOLEAN, inplace_callback : BOOLEAN,
             max_successive_merges : Thresholds, merge_operator : BOOLEAN] :
        o.inplace_callback => o.inplace_update_support }

\* the arguments of InsertInto besides the batch and the memtable.  The
\* constructor asserts db when filter_deletes is set, and the callback path
\* reads through db; in-place update is exercised with successive merges
\* switched off.
Configs ==
    { c \in [opts : OptionsSet, db : BOOLEAN, filter_deletes : BOOLEAN] :
        /\ c.filter_deletes => c.db
        /\ c.opts.inplace_callback => c.db
        /\ c.opts.inplace_update_support => c.opts.max_successive_merges = 0 }

Verdicts == {"UPDATED_INPLACE", "UPDATED", "UPDATE_FAILED"}

\* the answers the collaborators can give to one point mutation, as far as
\* the handler asks for them under configuration c
Answers(c, call) ==
    CASE call.op = "Put" ->
            IF ~c.opts.inplace_update_support THEN {DefaultResp}
            ELSE IF ~c.opts.inplace_callback
            THEN {[DefaultResp EXCEPT !.tbl = t] : t \in BOOLEAN}
            ELSE {[DefaultResp EXCEPT !.tbl = TRUE, !.cb = v] : v \in Verdicts}
                 \cup {[DefaultResp EXCEPT !.get = g, !.cb = v] :
                            g \in BOOLEAN, v \in Verdicts}
      [] call.op = "Delete" ->
            IF c.filter_deletes
            THEN {[DefaultResp EXCEPT !.may = e] : e \in BOOLEAN}
            ELSE {DefaultResp}
      [] call.op = "Merge" ->
            IF c.opts.max_successive_merges > 0 /\ c.db
            THEN {[DefaultResp EXCEPT !.get = g, !.merge = ok] :
                        g \in BOOLEAN, ok \in BOOLEAN}
            ELSE {DefaultResp}

RECURSIVE Oracles(_, _)
\* the oracles for a replay that delivers the point mutations calls
Oracles(c, calls) ==
    IF calls = <<>> THEN {<<>>}
    ELSE {<<a>> \o t : a \in Answers(c, Head(calls)), t \in Oracles(c, Tail(calls))}

InitApply ==
    /\ log \in SeqsUpTo(ApplyCalls, MaxRecs)
    /\ rep = SetSequence(Build(WriteBatch, log), BaseSequence)
    /\ src = WriteBatch
    /\ srclog = <<>>
    /\ op = [name |-> "WriteBatch"]
    /\ h = NoHandler
    /\ st = "none"
    /\ prev = NoRun
    /\ raw = NoDamage
    /\ NoHarness
    /\ NoIterator

DoInsertInto ==
    /\ op.name = "WriteBatch"
    /\ \E c \in Configs :
      \E oracle \in Oracles(c, PointCalls(BodyRecords(rep))) :
        /\ \E r \in {InsertInto(rep, <<>>, c.opts, c.db, c.filter_deletes, oracle)} :
               /\ rep' = r.rep_
               /\ h' = r.handler
               /\ st' = r.status
               /\ op' = [name |-> "InsertInto", rep |-> rep, input |-> r.input,
                         found |-> r.found]
        /\ UNCHANGED <<log, src, srclog, prev, raw, stressVars, iterVars>>

NextApply == DoInsertInto

SpecApply == InitApply /\ [][NextApply]_vars

---------------------------------------------------------------------------
(* Properties of the container and of the dispatcher.                      *)

\* s is an initial segment of t
IsPrefix(s, t) == Len(s) <= Len(t) /\ s = SubSeq(t, 1, Len(s))

\* the bytes after the header
Body(b) == SubSeq(b, kHeader + 1, Len(b))

DecodeErrors ==
    {"bad WriteBatch Put", "bad WriteBatch Delete", "bad WriteBatch Merge",
     "bad WriteBatch Blob", "unknown WriteBatch tag"}

Corruptions ==
    DecodeErrors \cup {"malformed WriteBatch (too small)", "WriteBatch has wrong count"}

\* C1 (round trip): iterating a batch built from the empty (or cleared) batch
\* by Put / Put(parts) / Delete / Merge / PutLogData calls, with a recording
\* handler that never stops, returns OK and delivers exactly the calls made,
\* with their arguments, in their order.
C1_RoundTrip ==
    (op.name = "Iterate" /\ ~h.stops) => (st = "OK" /\ h.calls = log)

\* a replay of three calls, among them an empty key and a two-byte length
C1_Witness ==
    /\ op.name = "Iterate" /\ ~h.stops
    /\ Len(h.calls) = 3
    /\ \E i, j \in 1..3 :
          /\ h.calls[i].op = "LogData" /\ Len(h.calls[i].blob) >= VarintBase
          /\ h.calls[j].op = "Merge" /\ h.calls[j].key = <<>>

\* C2 (count invariant): Count() is the number of non-LogData records in the
\* body; Put, Put(parts), Delete and Merge raise it by one, PutLogData leaves
\* it as it was, Clear makes it zero.
C2_CountInvariant ==
    /\ Count(rep) = Len(PointCalls(BodyRecords(rep)))
    /\ Count(rep) = Len(PointCalls(log))
    /\ op.name \in {"Put", "PutParts", "Delete", "Merge"} => Count(rep) = op.count + 1
    /\ op.name = "PutLogData" => Count(rep) = op.count
    /\ op.name = "Clear" => Count(rep) = 0

\* a PutLogData made on a batch that holds two point mutations
C2_Witness ==
    op.name = "PutLogData" /\ Count(rep) = 2 /\ Len(log) = 3

\* the last operation was an Iterate of the bytes given to SetContents
IteratedRaw == op.name = "Iterate" /\ op.after = "SetContents"

\* the record of the batch src that the damage raw falls in: the record whose
\* tag was replaced, or the one cut after its tag and before its end (0: none)
DamagedRecord ==
    CASE raw.kind = "tag" -> raw.rec
      [] raw.kind = "truncate" ->
            IF \E i \in 1..Len(srclog) :
                    RecordStart(srclog, i) < raw.at /\ raw.at < RecordStart(srclog, i + 1)
            THEN CHOOSE i \in 1..Len(srclog) :
                    RecordStart(srclog, i) < raw.at /\ raw.at < RecordStart(srclog, i + 1)
            ELSE 0
      [] OTHER -> 0

\* the records in front of the damaged one
BeforeDamage == SubSeq(srclog, 1, DamagedRecord - 1)

\* Continue() was true each time it was consulted in front of record k
Reaches(x, k) == ~x.stops \/ k - 1 < x.stopAfter

\* C4 as stated: a damaged record makes Iterate return a Corruption, with no
\* call for that record or any later one -- whatever the handler.
C4_AnyHandler ==
    (IteratedRaw /\ DamagedRecord # 0) =>
        (st \in Corruptions /\ IsPrefix(h.calls, BeforeDamage))

\* C4 (corruption detection), amended: no handler call is made for the damaged
\* record or for any record after it; and when Continue() has not stopped the
\* replay in front of the damaged record, Iterate returns a decode error and
\* the calls made are exactly the records in front of it.
C4_CorruptionDetected ==
    (IteratedRaw /\ DamagedRecord # 0) =>
        /\ IsPrefix(h.calls, BeforeDamage)
        /\ Reaches(h, DamagedRecord) =>
              (st \in DecodeErrors /\ h.calls = BeforeDamage)

\* the second record is cut short and the first was delivered
C4_Witness ==
    /\ IteratedRaw /\ raw.kind = "truncate" /\ DamagedRecord = 2
    /\ Len(h.calls) = 1 /\ st \in DecodeErrors

\* the records the buffer given to SetContents holds when each of them
\* decodes: all of src's, or those in front of a cut at a record boundary
IntactRecords ==
    IF raw.kind = "truncate"
    THEN SubSeq(srclog, 1,
                (CHOOSE i \in 1..(Len(srclog) + 1) : RecordStart(srclog, i) = raw.at) - 1)
    ELSE srclog

\* C5 (count mismatch): when every record decodes, an Iterate that runs to
\* the end of the buffer delivers every record, and returns the wrong-count
\* corruption if the count field differs from the number of non-LogData
\* records and OK if it agrees; wrong-count is none of the decode errors.
C5_CountMismatch ==
    (IteratedRaw /\ DamagedRecord = 0 /\ raw.kind # "tag" /\ op.input = <<>>) =>
        /\ h.calls = IntactRecords
        /\ st = IF Count(rep) # Len(PointCalls(IntactRecords))
                THEN "WriteBatch has wrong count" ELSE "OK"
        /\ st \notin DecodeErrors

\* only the count field was edited; both records were delivered
C5_Witness ==
    /\ IteratedRaw /\ raw.kind = "count" /\ op.input = <<>>
    /\ Len(h.calls) = 2 /\ st = "WriteBatch has wrong count"

C7_Append ==
    /\ op.name = "Append" =>
          /\ Count(rep) = Count(op.dst) + Count(op.src)
          /\ Body(rep) = Body(op.dst) \o Body(op.src)
          /\ Sequence(rep) = Sequence(op.dst)
          /\ src = op.src
          /\ log = op.dstlog \o srclog
    /\ (op.name = "Iterate" /\ op.after = "Append" /\ ~h.stops) =>
          (st = "OK" /\ h.calls = log)

\* two records appended to two, then replayed
C7_Witness ==
    /\ op.name = "Iterate" /\ op.after = "Append" /\ ~h.stops
    /\ Count(src) = 2 /\ Count(rep) = 4 /\ Len(h.calls) = 4

---------------------------------------------------------------------------
(* Properties of the applier.                                              *)

\* the handler calls of the last InsertInto, as MemTableInserter traced them
Applied == IF op.name = "InsertInto" THEN h.trace ELSE <<>>

\* the entries call t added to the memtable
Added(t) == SubSeq(t.memAfter, Len(t.memBefore) + 1, Len(t.memAfter))

\* C3 as stated: every Delete the applier handles takes one sequence slot,
\* the filtered ones too; so a batch of three filtered Deletes with base
\* sequence S leaves the running sequence at S + 3.
C3_FilteredDeleteAdvances ==
    /\ \A i \in 1..Len(Applied) :
          Applied[i].call.op = "Delete" => Applied[i].seqAfter = Applied[i].seq + 1
    /\ (op.name = "InsertInto" /\ Len(Applied) = 3
            /\ \A i \in 1..3 : Applied[i].branch = "filtered") =>
          (h.sequence_ = Sequence(rep) + 3 /\ h.mem_ = <<>>)

\* C8 (sequence-consistent reads): every read the applier issues (Get from
\* Put and Merge, KeyMayExist from Delete) is pinned to the running sequence
\* of the call that issues it, and every entry then in the memtable has a
\* smaller sequence number.
C8_ReadsPinned ==
    op.name = "InsertInto" =>
        \A i \in 1..Len(h.reads) :
            LET r == h.reads[i]
            IN  /\ r.call \in 1..Len(h.trace)
                /\ r.snapshot = h.trace[r.call].seq
                /\ r.snapshot = r.sequence
                /\ \A q \in r.memSeqs : q < r.snapshot
                /\ \A j \in r.call..Len(h.trace) :
                      \A n \in 1..Len(Added(h.trace[j])) :
                          Added(h.trace[j])[n].seq >= r.snapshot

\* a Get and a KeyMayExist, each issued with entries in the memtable
C8_Witness ==
    /\ op.name = "InsertInto"
    /\ \E i, j \in 1..Len(h.reads) :
          /\ h.reads[i].fn = "Get" /\ h.reads[i].memSeqs # {}
          /\ h.reads[j].fn = "KeyMayExist" /\ h.reads[j].memSeqs # {}

\* C9: a Put handled by the applier advances the running sequence by exactly
\* one in every branch (add, update, table callback, UPDATED_INPLACE, UPDATED,
\* declined).
C9_PutAdvances ==
    \A i \in 1..Len(Applied) :
        Applied[i].call.op = "Put" =>
            /\ Applied[i].seqAfter = Applied[i].seq + 1
            /\ Applied[i].branch \in {"add", "update", "table callback",
                                      "UPDATED_INPLACE", "UPDATED", "declined"}

\* three Puts under a callback: one declined after the point read without a
\* table write, one UPDATED, one handled inside the table
C9_Witness ==
    /\ Len(Applied) = 3
    /\ \E i, j, k \in 1..3 :
          /\ Applied[i].branch = "declined"
          /\ Applied[i].memAfter = Applied[i].memBefore
          /\ Applied[j].branch = "UPDATED"
          /\ Applied[k].branch = "table callback"

\* C10: LogData records take no sequence slot, leave the memtable alone and
\* are not counted as found: applying the batch without its LogData records,
\* under the same configuration and the same answers, leaves the same
\* handler (memtable, running sequence, ticks, reads) and the same status.
C10_LogDataNeutral ==
    op.name = "InsertInto" =>
        \E r \in {InsertInto(SetSequence(Build(WriteBatch, PointCalls(log)), Sequence(rep)),
                             <<>>, h.options_, h.db_, h.filter_deletes_, h.oracle)} :
            /\ r.handler = h
            /\ r.status = st
            /\ r.found = op.found
            /\ ~h.aborted => (st = "OK" /\ op.found = Len(PointCalls(log)))

\* a LogData record between two point mutations that both wrote
C10_Witness ==
    /\ op.name = "InsertInto" /\ Len(log) = 3 /\ log[2].op = "LogData"
    /\ Len(h.mem_) = 2 /\ h.sequence_ = Sequence(rep) + 2

\* the answers the collaborators gave to handler call i of the last InsertInto
Answer(i) == IF i <= Len(h.oracle) THEN h.oracle[i] ELSE DefaultResp

\* the calls handler call i made on the memtable
MemCallsOf(i) ==
    LET mine == SelectSeq(h.memcalls, LAMBDA mc : mc.call = i)
    IN  [n \in 1..Len(mine) |-> mine[n].fn]

\* C11 as stated: a Merge handled by the applier with no merge operator
\* configured ends the process on the failed assertion in every
\* configuration, whatever the successive-merge threshold and with or
\* without a store; it never appends a Merge entry and never does nothing.
C11_MergeFailsLoudly ==
    \A i \in 1..Len(Applied) :
        (Applied[i].call.op = "Merge" /\ ~h.options_.merge_operator) =>
            /\ Applied[i].branch = "assert"
            /\ h.aborted
            /\ Added(Applied[i]) = <<>>

---------------------------------------------------------------------------
(* SpecHeader: a batch constructed with some reserved capacity goes        *)
(* through every operation that writes rep_: the mutations, Clear,         *)
(* SetContents with contents of at least kHeader bytes, and Append of a    *)
(* batch with a header; it is iterated in between.                         *)

\* the reserved_bytes given to the constructor
ReservedSizes == {0, kHeader, 64}

\* rep_.reserve((reserved_bytes > kHeader) ? reserved_bytes : kHeader)
Reserve(reserved_bytes) ==
    IF reserved_bytes > kHeader THEN reserved_bytes ELSE kHeader

\* the contents SetContents is called with: assert(contents.size() >= kHeader)
\* (a bare header, a batch, a batch cut inside its record, and one whose
\* count disagrees)
HeaderContents ==
    LET b == Put(WriteBatch, <<107>>, <<118>>)
    IN  {WriteBatch, b, SubSeq(b, 1, kHeader + 2), SetCount(b, 2)}

InitHeader ==
    /\ rep = WriteBatch
    /\ log = <<>>
    /\ srclog \in {<<>>, <<PutCall(<<107>>, <<118>>)>>}
    /\ src = Build(WriteBatch, srclog)
    /\ \E n \in ReservedSizes :
          op = [name |-> "WriteBatch", capacity |-> Reserve(n)]
    /\ h = NoHandler
    /\ st = "none"
    /\ prev = NoRun
    /\ raw = NoDamage
    /\ NoHarness
    /\ NoIterator

\* SetContents at any time; the calls on record are those the contents hold
DoSetContentsAny ==
    \E contents \in HeaderContents :
        /\ Len(contents) >= kHeader
        /\ Mutated(SetContents(rep, contents), BodyRecords(contents),
                   [name |-> "SetContents", size |-> Len(contents)])

\* Append at any time
DoAppendAny ==
    /\ Len(src) >= kHeader
    /\ Len(log) + Len(srclog) <= MaxOps
    /\ Mutated(WriteBatchInternal_Append(rep, src).dst, log \o srclog,
               [name |-> "Append", dst |-> rep, src |-> src, dstlog |-> log])

NextHeader ==
    \/ DoPut
    \/ DoPutParts
    \/ DoDelete
    \/ DoMerge
    \/ DoPutLogData
    \/ DoClear
    \/ DoSetContentsAny
    \/ DoAppendAny
    \/ DoIterate

SpecHeader == InitHeader /\ [][NextHeader]_vars

\* C12 (header invariant): after construction with any reserved capacity and
\* after any sequence of Put, Delete, Merge, PutLogData, Clear, SetContents
\* (of at least 12 bytes) and Append (of a batch with a header), rep_ holds
\* at least the 12 header bytes, and Iterate never returns the "too small"
\* corruption.
C12_HeaderInvariant ==
    /\ Len(rep) >= kHeader
    /\ op.name = "Iterate" => st # "malformed WriteBatch (too small)"

\* SetContents with a bare header, then mutated, cleared and iterated
C12_Witness ==
    /\ op.name = "Iterate" /\ op.after = "SetContents"
    /\ Len(rep) = kHeader /\ st = "OK"

---------------------------------------------------------------------------
(* SpecApplyRaw: a batch produced elsewhere and given a base sequence       *)
(* number reaches this one through SetContents, possibly damaged on the    *)
(* way, and is applied to an empty memtable by InsertInto.                 *)

InitApplyRaw ==
    /\ rep = WriteBatch
    /\ log = <<>>
    /\ srclog \in SeqsUpTo(ApplyCalls, MaxRawRecs)
    /\ src = SetSequence(Build(WriteBatch, srclog), BaseSequence)
    /\ op = [name |-> "WriteBatch"]
    /\ h = NoHandler
    /\ st = "none"
    /\ prev = NoRun
    /\ raw = NoDamage
    /\ NoHarness
    /\ NoIterator

\* InsertInto of the bytes given to SetContents
DoInsertIntoRaw ==
    /\ op.name = "SetContents"
    /\ \E c \in Configs :
      \E oracle \in Oracles(c, PointCalls(BodyRecords(rep))) :
        /\ \E r \in {InsertInto(rep, <<>>, c.opts, c.db, c.filter_deletes, oracle)} :
               /\ rep' = r.rep_
               /\ h' = r.handler
               /\ st' = r.status
               /\ op' = [name |-> "InsertInto", rep |-> rep, input |-> r.input,
                         found |-> r.found]
        /\ UNCHANGED <<log, src, srclog, prev, raw, stressVars, iterVars>>

NextApplyRaw ==
    \/ DoSetContents
    \/ DoInsertIntoRaw

SpecApplyRaw == InitApplyRaw /\ [][NextApplyRaw]_vars

\* the records the dispatcher delivered to the applier before it failed
Delivered == BodyRecords(rep)

\* the applier as InsertInto of exactly the delivered records leaves it, under
\* the same configuration and the same answers
AppliedAlone ==
    InsertInto(SetSequence(Build(WriteBatch, Delivered), Sequence(rep)),
               <<>>, h.options_, h.db_, h.filter_deletes_, h.oracle)

\* C13 (no rollback on failure): when InsertInto fails with a decode error at
\* record k or with the wrong-count error at the end, the memtable holds
\* every entry written for the records before k and the running sequence
\* keeps its advanced value: the applier is left exactly as the successful
\* application of those records alone leaves it, and the failure writes
\* nothing more.
C13_NoRollback ==
    (op.name = "InsertInto" /\ st \in Corruptions) =>
        /\ Len(PointCalls(Delivered)) = Len(h.trace)
        /\ \A i \in 1..Len(h.trace) : h.trace[i].call = PointCalls(Delivered)[i]
        /\ \E r \in {AppliedAlone} :
              /\ r.status = "OK"
              /\ h = r.handler

\* a decode error at the second record after the first one wrote its entry
C13_Witness ==
    /\ op.name = "InsertInto" /\ st \in DecodeErrors
    /\ DamagedRecord = 2
    /\ Len(h.mem_) = 1 /\ h.sequence_ = Sequence(rep) + 1

---------------------------------------------------------------------------
(* Properties of the replay loop's Continue() protocol.                    *)

\* the last Iterate left records undelivered because Continue() said stop
StoppedEarly == op.name = "Iterate" /\ op.input # <<>> /\ st \notin DecodeErrors

\* C14 (early stop): Continue() is consulted once in front of each record,
\* and not at all once the buffer is exhausted; after it returns false no
\* further record is delivered, the bytes of the remaining records are left
\* undecoded, and the records already delivered stay delivered.
C14_EarlyStop ==
    op.name = "Iterate" =>
        /\ h.calls = SubSeq(log, 1, IF h.stops THEN Min(h.stopAfter, Len(log))
                                               ELSE Len(log))
        /\ h.asked = IF op.input = <<>> THEN Len(h.calls) ELSE Len(h.calls) + 1
        /\ op.input # <<>> <=> (h.stops /\ h.stopAfter < Len(log))
        /\ Body(rep) = Body(Build(WriteBatch, h.calls)) \o op.input

\* a handler that stops after the first of three records
C14_Witness ==
    /\ StoppedEarly /\ Len(log) = 3
    /\ Len(h.calls) = 1 /\ h.asked = 2

\* C15 as stated: when Continue() returns false while well-formed records
\* remain undelivered, Iterate does not compare the found-counter with the
\* count field and does not return the wrong-count corruption.
C15_NoCheckAfterStop ==
    StoppedEarly => st = "OK"

---------------------------------------------------------------------------
(* Properties of the applier's branches.                                   *)

\* by how much handler call t raised a ticker
Ticked(t, ticker) == t.ticksAfter[ticker] - t.ticksBefore[ticker]

\* handler call t raised no ticker but these
OnlyTicked(t, tickers) ==
    \A k \in DOMAIN t.ticksBefore : k \notin tickers => Ticked(t, k) = 0

\* the reads handler call i issued
ReadsOf(i) == SelectSeq(h.reads, LAMBDA r : r.call = i)

\* C16: the applier's Delete adds a Deletion tombstone at the current
\* sequence if and only if delete-filtering is off or the may-exist probe
\* says the key may exist; when filtering is on and the probe says the key is
\* absent it adds nothing and raises the filtered-deletes ticker by one; with
\* filtering off it makes no probe.
C16_DeleteFiltering ==
    \A i \in 1..Len(Applied) :
        LET t == Applied[i]
            writes == ~h.filter_deletes_ \/ Answer(i).may
        IN  t.call.op = "Delete" =>
              /\ Added(t) = IF writes
                            THEN <<Entry(t.seq, kTypeDeletion, t.call.key, <<>>)>>
                            ELSE <<>>
              /\ MemCallsOf(i) = IF writes THEN <<"Add">> ELSE <<>>
              /\ Ticked(t, "NUMBER_FILTERED_DELETES") = IF writes THEN 0 ELSE 1
              /\ OnlyTicked(t, {"NUMBER_FILTERED_DELETES"})
              /\ Len(ReadsOf(i)) = IF h.filter_deletes_ THEN 1 ELSE 0
              /\ \A n \in 1..Len(ReadsOf(i)) :
                    /\ ReadsOf(i)[n].fn = "KeyMayExist"
                    /\ ReadsOf(i)[n].key = t.call.key
                    /\ ReadsOf(i)[n].snapshot = t.seq

\* with filtering on, one Delete dropped and one that wrote its tombstone
C16_Witness ==
    /\ op.name = "InsertInto" /\ h.filter_deletes_
    /\ \E i, j \in 1..Len(Applied) :
          /\ Applied[i].branch = "filtered" /\ Added(Applied[i]) = <<>>
          /\ Applied[j].branch = "may exist" /\ Len(Added(Applied[j])) = 1

\* the successive-merge threshold is set and the Merge entries pending for the
\* key at the head of the memtable have reached it when handler call t arrives
ThresholdReached(t) ==
    /\ h.options_.max_successive_merges > 0
    /\ CountSuccessiveMergeEntries(t.memBefore, t.call.key, t.seq)
            >= h.options_.max_successive_merges

\* the base value of t's key folded with its pending operands and the new one
FoldedValue(t, stored) ==
    LET es == KeyEntries(t.memBefore, t.call.key, t.seq)
    IN  FullMergeResult(BaseValue(es, stored).value,
                        Append(PendingOperands(es), t.call.value))

\* a Merge call resolved eagerly: one Get of the key pinned to the current
\* sequence, and, when the merge operator returns true, exactly one Value
\* entry holding the folded value at the current sequence and no Merge entry
ResolvedEagerly(i) ==
    LET t == Applied[i]
    IN  /\ Len(ReadsOf(i)) = 1
        /\ ReadsOf(i)[1].fn = "Get"
        /\ ReadsOf(i)[1].key = t.call.key
        /\ ReadsOf(i)[1].snapshot = t.seq
        /\ (h.options_.merge_operator /\ Answer(i).merge) =>
              /\ Added(t) = <<Entry(t.seq, kTypeValue, t.call.key,
                                    FoldedValue(t, Answer(i).get))>>
              /\ MemCallsOf(i) = <<"CountSuccessiveMergeEntries", "Add">>
              /\ t.seqAfter = t.seq + 1

\* C17 as stated: whenever the threshold T > 0 is reached the Merge is
\* resolved eagerly.
C17_EagerWhenThreshold ==
    \A i \in 1..Len(Applied) :
        (Applied[i].call.op = "Merge" /\ ThresholdReached(Applied[i])) =>
            ResolvedEagerly(i)

\* C17 (eager merge resolution), amended: when the threshold T > 0 is reached
\* and the applier was given a store to read from, the Merge is resolved
\* eagerly.
C17_EagerMerge ==
    \A i \in 1..Len(Applied) :
        (Applied[i].call.op = "Merge" /\ ThresholdReached(Applied[i]) /\ h.db_) =>
            ResolvedEagerly(i)

\* threshold 2: the third Merge of the key is folded with the two pending
C17_Witness ==
    /\ Len(Applied) = 3 /\ Applied[3].branch = "merged"
    /\ h.options_.max_successive_merges = 2
    /\ Len(PendingOperands(Applied[3].memBefore)) = 2
    /\ Len(h.mem_) = 3 /\ h.mem_[3].type = kTypeValue

\* handler call i is a Merge whose eager resolution was attempted and whose
\* FullMerge returned false
FullMergeFailed(i) ==
    /\ Applied[i].call.op = "Merge"
    /\ ThresholdReached(Applied[i])
    /\ h.db_
    /\ h.options_.merge_operator
    /\ ~Answer(i).merge

\* C18 (merge failure is degraded): when eager resolution is attempted and
\* FullMerge returns false, the merge-failures ticker goes up by one, the
\* operand is added as a Merge entry at the current sequence, no Value entry
\* is added, the sequence advances by one, and the replay goes on to the
\* remaining records and returns OK.
C18_MergeFailureDegraded ==
    \A i \in 1..Len(Applied) :
        LET t == Applied[i]
        IN  FullMergeFailed(i) =>
              /\ Ticked(t, "NUMBER_MERGE_FAILURES") = 1
              /\ OnlyTicked(t, {"NUMBER_MERGE_FAILURES"})
              /\ Added(t) = <<Entry(t.seq, kTypeMerge, t.call.key, t.call.value)>>
              /\ MemCallsOf(i) = <<"CountSuccessiveMergeEntries", "Add">>
              /\ Len(ReadsOf(i)) = 1
              /\ t.seqAfter = t.seq + 1
              /\ ~h.aborted
              /\ Len(Applied) = Len(PointCalls(log))
              /\ st = "OK"

\* a failed merge in the middle of a batch, followed by another record
C18_Witness ==
    /\ Len(Applied) = 3 /\ FullMergeFailed(2)
    /\ Applied[2].branch = "merge failed"
    /\ st = "OK"

\* the invocations of the update callback made by handler call i
CallbacksOf(i) == SelectSeq(h.callbacks, LAMBDA cb : cb.call = i)

\* what the point read of handler call i returns
ReadResult(i) ==
    DBImpl_Get(Applied[i].memBefore, Applied[i].call.key, Applied[i].seq,
               Answer(i).get, h.options_.merge_operator /\ Answer(i).merge)

\* C19 (Put with an update callback): if the memtable's callback-driven
\* update handles the key, the applier makes no point read, invokes no
\* callback itself and adds nothing; otherwise it makes one point read of the
\* key at the current sequence and invokes the callback once, with the value
\* read when the read succeeded and with none when it did not; on
\* UPDATED_INPLACE it adds the previous buffer as the callback left it as a
\* Value entry, on UPDATED the buffer the callback computed, and on any other
\* result it adds nothing.
C19_PutCallback ==
    \A i \in 1..Len(Applied) :
        LET t == Applied[i]
            got == ReadResult(i)
            prevv == IF got.ok THEN got.value ELSE <<>>
        IN  (t.call.op = "Put" /\ h.options_.inplace_callback) =>
              IF UpdateCallbackHandles(t.memBefore, t.seq, t.call.key, Answer(i).tbl)
              THEN /\ ReadsOf(i) = <<>>
                   /\ CallbacksOf(i) = <<>>
                   /\ MemCallsOf(i) = <<"UpdateCallback">>
                   /\ OnlyTicked(t, {})
              ELSE /\ Len(ReadsOf(i)) = 1
                   /\ ReadsOf(i)[1].fn = "Get"
                   /\ ReadsOf(i)[1].key = t.call.key
                   /\ ReadsOf(i)[1].snapshot = t.seq
                   /\ Len(CallbacksOf(i)) = 1
                   /\ CallbacksOf(i)[1].prev.some = got.ok
                   /\ CallbacksOf(i)[1].prev.value = prevv
                   /\ CallbacksOf(i)[1].delta = t.call.value
                   /\ Answer(i).cb = "UPDATED_INPLACE" =>
                         Added(t) = <<Entry(t.seq, kTypeValue, t.call.key,
                                            InplaceResult(prevv, t.call.value))>>
                   /\ Answer(i).cb = "UPDATED" =>
                         Added(t) = <<Entry(t.seq, kTypeValue, t.call.key,
                                            MergedResult(prevv, t.call.value))>>
                   /\ Answer(i).cb \notin {"UPDATED_INPLACE", "UPDATED"} =>
                         (Added(t) = <<>> /\ MemCallsOf(i) = <<"UpdateCallback">>)

\* a callback invoked with none that updated in place, one invoked with the
\* value read, and a Put the memtable handled
C19_Witness ==
    /\ op.name = "InsertInto" /\ Len(h.callbacks) = 2
    /\ \E a, b \in 1..2 :
          /\ ~h.callbacks[a].prev.some /\ Answer(h.callbacks[a].call).cb = "UPDATED_INPLACE"
          /\ h.callbacks[b].prev.some
    /\ \E i \in 1..Len(Applied) : Applied[i].branch = "table callback"

\* C20 (Put branch selection): with in-place update disabled a Put adds a
\* Value entry at the current sequence and looks nothing up (no Update, no
\* UpdateCallback, no read); with in-place update enabled and no callback it
\* calls the memtable's Update exactly once, adds nothing itself, and raises
\* the keys-updated ticker by one whether or not the memtable held an entry
\* of the key.  Which of the branches is taken depends on the options alone.
C20_PutBranches ==
    \A i \in 1..Len(Applied) :
        LET t == Applied[i]
        IN  t.call.op = "Put" =>
              /\ ~h.options_.inplace_update_support =>
                    /\ t.branch = "add"
                    /\ Added(t) = <<Entry(t.seq, kTypeValue, t.call.key, t.call.value)>>
                    /\ MemCallsOf(i) = <<"Add">>
                    /\ ReadsOf(i) = <<>>
                    /\ OnlyTicked(t, {})
              /\ (h.options_.inplace_update_support /\ ~h.options_.inplace_callback) =>
                    /\ t.branch = "update"
                    /\ MemCallsOf(i) = <<"Update">>
                    /\ ReadsOf(i) = <<>>
                    /\ Ticked(t, "NUMBER_KEYS_UPDATED") = 1
                    /\ OnlyTicked(t, {"NUMBER_KEYS_UPDATED"})
                    /\ t.memAfter = MemTable_Update(t.memBefore, t.seq, t.call.key,
                                                    t.call.value, Answer(i).tbl)
              /\ h.options_.inplace_callback =>
                    t.branch \in {"table callback", "UPDATED_INPLACE", "UPDATED",
                                  "declined"}

\* in-place update without a callback: a Put that found no entry of its key
\* and one that overwrote the entry in place, both counted
C20_Witness ==
    /\ Len(Applied) = 2 /\ h.ticks["NUMBER_KEYS_UPDATED"] = 2
    /\ Applied[1].branch = "update" /\ Applied[1].memBefore = <<>>
    /\ Applied[2].branch = "update"
    /\ Len(Applied[2].memAfter) = Len(Applied[2].memBefore)

\* the invocations of FullMerge made by handler call i
FullMergesOf(i) == SelectSeq(h.fullmerges, LAMBDA fm : fm.call = i)

\* handler call t finds the Merge entries pending for its key below the
\* threshold
BelowThreshold(t) ==
    CountSuccessiveMergeEntries(t.memBefore, t.call.key, t.seq)
        < h.options_.max_successive_merges

\* C21 (deferred merge): when the successive-merge threshold is 0, or the
\* applier has no store, or the Merge entries pending for the key are fewer
\* than the threshold, a Merge adds its operand unchanged as a Merge entry at
\* the current sequence, makes no point read and does not invoke the merge
\* operator.
C21_DeferredMerge ==
    \A i \in 1..Len(Applied) :
        LET t == Applied[i]
        IN  (/\ t.call.op = "Merge"
             /\ \/ h.options_.max_successive_merges = 0
                \/ ~h.db_
                \/ BelowThreshold(t)) =>
              /\ Added(t) = <<Entry(t.seq, kTypeMerge, t.call.key, t.call.value)>>
              /\ ReadsOf(i) = <<>>
              /\ FullMergesOf(i) = <<>>
              /\ t.seqAfter = t.seq + 1

\* the threshold 1 is reached by the second Merge of the key, but the applier
\* has no store: the operand is deferred
C21_Witness ==
    /\ Len(Applied) = 2 /\ Applied[2].call.op = "Merge"
    /\ h.options_.max_successive_merges = 1 /\ ~h.db_
    /\ ~BelowThreshold(Applied[2])
    /\ Len(h.mem_) = 2 /\ h.mem_[2].type = kTypeMerge

---------------------------------------------------------------------------
(* SpecClear: a batch that holds records and a sequence number is mutated  *)
(* and cleared; from the Clear on, a freshly constructed batch (src) is    *)
(* given the same mutations.                                               *)

InitClear ==
    /\ log \in SeqsUpTo(AppendCalls, MaxSrcOps)
    /\ rep = SetSequence(Build(WriteBatch, log), DstSequence)
    /\ src = WriteBatch
    /\ srclog = <<>>
    /\ op = [name |-> "WriteBatch"]
    /\ h = NoHandler
    /\ st = "none"
    /\ prev = NoRun
    /\ raw = NoDamage
    /\ NoHarness
    /\ NoIterator

\* Clear, on whatever the batch holds; a fresh batch is constructed beside it
DoClearAny ==
    /\ rep' = Clear
    /\ log' = <<>>
    /\ src' = WriteBatch
    /\ srclog' = <<>>
    /\ op' = [name |-> "Clear", rep |-> rep]
    /\ h' = NoHandler
    /\ st' = "none"
    /\ prev' = NoRun
    /\ UNCHANGED <<raw, stressVars, iterVars>>

\* a mutation of the batch and, once it has been cleared, of the fresh one
DoMutateBoth ==
    \E c \in AppendCalls :
      \E cleared \in {op.name = "Clear" \/ (op.name = "Mutate" /\ op.cleared)} :
        /\ Len(log) < MaxOps
        /\ rep' = ApplyCall(rep, c)
        /\ log' = Append(log, c)
        /\ src' = IF cleared THEN ApplyCall(src, c) ELSE src
        /\ srclog' = IF cleared THEN Append(srclog, c) ELSE srclog
        /\ op' = [name |-> "Mutate", cleared |-> cleared, count |-> Count(rep),
                  call |-> c]
        /\ h' = NoHandler
        /\ st' = "none"
        /\ prev' = NoRun
        /\ UNCHANGED <<raw, stressVars, iterVars>>

NextClear ==
    \/ DoClearAny
    \/ DoMutateBoth
    \/ DoIterate

SpecClear == InitClear /\ [][NextClear]_vars

\* C22 (Clear): after Clear, whatever the batch held, rep_ is exactly the 12
\* header bytes, Count() is 0, the sequence field is 0 and Iterate returns OK
\* without a handler call; a batch cleared and then mutated is byte for byte
\* the fresh batch given the same mutations.
C22_ClearResets ==
    /\ op.name = "Clear" =>
          /\ Len(rep) = kHeader
          /\ Count(rep) = 0
          /\ Sequence(rep) = 0
          /\ rep = src
    /\ (op.name = "Iterate" /\ op.after = "Clear") => (st = "OK" /\ h.calls = <<>>)
    /\ (op.name = "Mutate" /\ op.cleared) =>
          /\ rep = src
          /\ log = srclog
          /\ Count(rep) = op.count + (IF IsPoint(op.call) THEN 1 ELSE 0)

\* a batch cleared and then given two point mutations (every batch of this
\* specification starts with the sequence number DstSequence)
C22_Witness ==
    /\ op.name = "Mutate" /\ op.cleared /\ Len(srclog) = 2 /\ Count(src) = 2

---------------------------------------------------------------------------
(* Properties of a batch whose count field disagrees with its records.     *)

\* every record of b decodes
WellFormed(b) == Iterate(b, Recorder(FALSE, 0)).status \notin DecodeErrors

\* the count field of the batch disagrees with the records it holds
Desynchronised ==
    WellFormed(rep) /\ Count(rep) # Len(PointCalls(BodyRecords(rep)))

\* C23 as stated: SetContents adopts the bytes as they are, Count() returns
\* the raw field, a later Put, Delete or Merge raises the raw field by one,
\* and the disagreement between the field and the records is reported only
\* by an Iterate that runs to the end of the buffer, as the wrong-count
\* corruption.
C23_LateDetection ==
    /\ op.name = "SetContents" => (rep \in HeaderContents /\ Len(rep) = op.size)
    /\ op.name \in {"Put", "PutParts", "Delete", "Merge"} => Count(rep) = op.count + 1
    /\ (op.name = "Iterate" /\ Desynchronised) =>
          (st = "WriteBatch has wrong count" <=> op.input = <<>>)

---------------------------------------------------------------------------
(* SpecDecode: as SpecRaw, and the bytes given to SetContents may also be  *)
(* cut inside the header: the assert of SetContents is compiled out of a   *)
(* release build, and Iterate checks the size itself.                      *)

\* SetContents with fewer than kHeader bytes
DoSetContentsShort ==
    \E n \in 0..(kHeader - 1) :
        /\ op.name = "WriteBatch"
        /\ rep' = SetContents(rep, SubSeq(src, 1, n))
        /\ raw' = [kind |-> "truncate", at |-> n]
        /\ op' = [name |-> "SetContents"]
        /\ h' = NoHandler
        /\ st' = "none"
        /\ prev' = NoRun
        /\ UNCHANGED <<log, src, srclog, stressVars, iterVars>>

NextDecode ==
    \/ DoSetContents
    \/ DoSetContentsShort
    \/ DoIterate

SpecDecode == InitRaw /\ [][NextDecode]_vars

\* the decode error named after the kind of record c
KindError(c) ==
    CASE c.op = "Put" -> "bad WriteBatch Put"
      [] c.op = "Delete" -> "bad WriteBatch Delete"
      [] c.op = "Merge" -> "bad WriteBatch Merge"
      [] c.op = "LogData" -> "bad WriteBatch Blob"

\* C24 (decode failures name the record kind): a replay that reaches a
\* record cut between its tag and its end returns the error of that record's
\* kind (bad Put, bad Delete, bad Merge, bad Blob), one that reaches an
\* unassigned tag returns "unknown tag", and in both cases no handler call is
\* made for that record, also when its key decodes and its value does not; a
\* buffer of fewer than 12 bytes gives "too small" and no handler call.
C24_DecodeErrorKinds ==
    IteratedRaw =>
        /\ (DamagedRecord # 0 /\ Reaches(h, DamagedRecord)) =>
              /\ st = IF raw.kind = "tag" THEN "unknown WriteBatch tag"
                      ELSE KindError(srclog[DamagedRecord])
              /\ h.calls = BeforeDamage
        /\ (raw.kind = "truncate" /\ raw.at < kHeader) =>
              /\ st = "malformed WriteBatch (too small)"
              /\ h.calls = <<>>
              /\ h.asked = 0

\* a Put cut after its key and before the end of its value, behind one
\* delivered record
C24_Witness ==
    /\ IteratedRaw /\ raw.kind = "truncate" /\ DamagedRecord = 2
    /\ srclog[2].op = "Put"
    /\ raw.at = RecordStart(srclog, 2) + 3
    /\ st = "bad WriteBatch Put" /\ Len(h.calls) = 1

---------------------------------------------------------------------------
(* Properties of the container's mutations.                                *)

\* C25: Put(keyParts, valueParts) leaves the batch that Put(key, value) leaves
\* when given the concatenation of the key fragments and of the value
\* fragments, however they are split (no fragment, empty fragments), and
\* raises the count by one.
C25_PutPartsIsPut ==
    op.name = "PutParts" =>
        /\ rep = Put(op.rep, Concat(op.key), Concat(op.value))
        /\ Count(rep) = Count(op.rep) + 1
        /\ log[Len(log)] = PutCall(Concat(op.key), Concat(op.value))

\* a key of three fragments, the first empty, and a value of four, put into
\* a batch that holds a record
C25_Witness ==
    /\ op.name = "PutParts" /\ Len(op.key) = 3 /\ Len(op.value) = 4
    /\ op.key[1] = <<>> /\ Count(rep) = 2

---------------------------------------------------------------------------
(* SpecDefaults: the batch a writer builds is iterated with a handler that *)
(* overrides Put and Delete only.                                          *)

DoIterateDefaults ==
    /\ \E r \in {Iterate(rep, PutDeleteHandler)} :
           /\ rep' = r.rep_
           /\ h' = r.handler
           /\ st' = r.status
           /\ op' = [name |-> "Iterate",
                     after |-> IF op.name = "Iterate" THEN op.after ELSE op.name,
                     rep |-> rep, input |-> r.input, found |-> r.found]
    /\ prev' = NoRun
    /\ UNCHANGED <<log, src, srclog, raw, stressVars, iterVars>>

NextDefaults ==
    \/ DoPut
    \/ DoPutParts
    \/ DoDelete
    \/ DoMerge
    \/ DoPutLogData
    \/ DoClear
    \/ DoIterateDefaults

SpecDefaults == Init /\ [][NextDefaults]_vars

\* the position in the batch of its first Merge record (past the end: none)
FirstMerge ==
    IF \E i \in 1..Len(log) : log[i].op = "Merge"
    THEN CHOOSE i \in 1..Len(log) :
            log[i].op = "Merge" /\ \A j \in 1..(i - 1) : log[j].op # "Merge"
    ELSE Len(log) + 1

\* C26 (handler defaults): a handler that overrides only Put and Delete is
\* given the Puts and Deletes in order, LogData records have no effect and
\* do not end the replay, the replay is never stopped early (it ends OK at
\* the end of the buffer), and a Merge record makes the handler throw: the
\* record is not skipped and nothing behind it is delivered.
C26_HandlerDefaults ==
    op.name = "Iterate" =>
        /\ h.calls = PointCalls(SubSeq(log, 1, FirstMerge - 1))
        /\ FirstMerge > Len(log) =>
              (st = "OK" /\ ~h.thrown /\ op.input = <<>>)
        /\ FirstMerge <= Len(log) =>
              (st = "Handler::Merge not implemented!" /\ h.thrown)

\* a LogData, then a Put that is delivered, then a Merge that throws
C26_Witness ==
    /\ op.name = "Iterate" /\ h.thrown /\ Len(log) = 3
    /\ log[1].op = "LogData" /\ Len(h.calls) = 1 /\ FirstMerge = 3

---------------------------------------------------------------------------
(* Properties of the applier's sequence numbers.                           *)

\* handler call t advanced the running sequence by one and added exactly one
\* entry, at the sequence it found: a Value entry if an eager resolution
\* succeeded, else a Merge entry
WroteOneEntry(t) ==
    /\ t.seqAfter = t.seq + 1
    /\ Len(Added(t)) = 1
    /\ Added(t)[1].seq = t.seq
    /\ Added(t)[1].key = t.call.key
    /\ Added(t)[1].type = IF t.branch = "merged" THEN kTypeValue ELSE kTypeMerge
    /\ t.branch \in {"merged", "deferred", "merge failed"}

C28_DistinctSequences ==
    op.name = "InsertInto" =>
        /\ \A i, j \in 1..Len(h.mem_) : i < j => h.mem_[i].seq < h.mem_[j].seq
        /\ \A i \in 1..Len(h.mem_) :
              /\ h.mem_[i].seq >= Sequence(rep)
              /\ h.mem_[i].seq < Sequence(rep) + Len(h.trace)

\* a batch of three records of which one, a filtered Delete or a declined
\* Put, wrote nothing and the two others wrote
C28_Witness ==
    /\ op.name = "InsertInto" /\ Len(Applied) = 3 /\ Len(h.mem_) = 2
    /\ \E i \in 1..3 : Applied[i].branch \in {"filtered", "declined"}
    /\ h.mem_[1].seq < h.mem_[2].seq

\* C29 as stated: after an InsertInto that returned OK the applier's running
\* sequence is the batch's base sequence plus its Count().
C29_FinalSequence ==
    (op.name = "InsertInto" /\ st = "OK") =>
        h.sequence_ = Sequence(rep) + Count(rep)

\* C30: in an eager merge resolution the result of the point read is not
\* looked at: FullMerge is invoked once, with an existing value that is
\* always present, namely the read buffer, which is empty when the read
\* found nothing, and with an operand list that holds the new operand alone.
C30_MergeInputs ==
    \A i \in 1..Len(Applied) :
        LET t == Applied[i]
            got == ReadResult(i)
        IN  /\ t.branch \in {"merged", "merge failed"} =>
                  /\ Len(FullMergesOf(i)) = 1
                  /\ FullMergesOf(i)[1].existing.some
                  /\ FullMergesOf(i)[1].existing.value =
                        (IF got.ok THEN got.value ELSE <<>>)
                  /\ FullMergesOf(i)[1].operands = <<t.call.value>>
            /\ t.branch \notin {"merged", "merge failed"} => FullMergesOf(i) = <<>>

\* a FullMerge given the empty buffer of a read that failed, and one given
\* the value read
C30_Witness ==
    /\ op.name = "InsertInto" /\ Len(h.fullmerges) = 2
    /\ \E a, b \in 1..2 :
          /\ ~ReadResult(h.fullmerges[a].call).ok
          /\ h.fullmerges[a].existing = [some |-> TRUE, value |-> <<>>]
          /\ ReadResult(h.fullmerges[b].call).ok
          /\ h.fullmerges[b].existing.value # <<>>

---------------------------------------------------------------------------
(* Properties of Append on well-formed batches.                            *)

\* b iterates to OK and its count field is the number of its non-LogData
\* records
WellFormedBatch(b) ==
    \E r \in {Iterate(b, Recorder(FALSE, 0))} :
        r.status = "OK" /\ Count(b) = Len(PointCalls(r.handler.calls))

\* C31: if dst and src each iterate to OK with a count field equal to the
\* number of their non-LogData records, dst does so after Append(dst, src),
\* also when src holds LogData records; and a src that is a bare header
\* leaves dst byte for byte as it was.
C31_AppendWellFormed ==
    op.name = "Append" =>
        /\ WellFormedBatch(op.dst) /\ WellFormedBatch(op.src)
        /\ WellFormedBatch(rep)
        /\ Len(op.src) = kHeader => rep = op.dst
        /\ BodyRecords(rep) = BodyRecords(op.dst) \o BodyRecords(op.src)

\* a src that holds a LogData record and a point mutation, appended to a dst
\* that holds two records
C31_Witness ==
    /\ op.name = "Append" /\ Len(srclog) = 2 /\ Count(src) = 1
    /\ Len(op.dstlog) = 2 /\ Count(rep) = Count(op.dst) + 1

---------------------------------------------------------------------------
(* The stress harness of tools/db_stress.cc: StressTest::Run in the main   *)
(* thread, FLAGS.threads worker threads running ThreadBody (OperateDb,     *)
(* then VerifyDb), the SharedState they synchronise on, and the database   *)
(* handle db_ that Reopen destroys and opens again.                        *)
(*                                                                         *)
(* port::Mutex and port::CondVar are collaborators: Lock blocks while the  *)
(* mutex is held, Wait releases the mutex and blocks until a SignalAll,    *)
(* then takes the mutex again. The database is a collaborator too: a map   *)
(* from keys to values on which every write succeeds and which survives a  *)
(* Reopen (disable_wal is refused together with reopen > 0).               *)

\* largest FLAGS_threads of a run
MaxThreads == 3
\* largest FLAGS_ops_per_thread of a run
MaxOpsPerThread == 4
\* largest FLAGS_max_key of a run
MaxKey == 2

\* SharedState::SENTINEL: no value is expected for the key. The uint32_t
\* 0xffffffff, written as the 32-bit integer with the same bits.
SENTINEL == -1

\* the owner of a mutex: a worker's tid, the main thread, or nobody
Main == MaxThreads
Nobody == MaxThreads + 1

\* the values thread->rand.Next() gives for value_base
ValueBases == {7, 8}

Tids == 0 .. FLAGS.threads - 1
StressKeys == 0 .. FLAGS.max_key - 1

\* the flags of a run: FLAGS_threads, FLAGS_ops_per_thread, ..., the
\* percents summing to 100
StressFlags(threads, ops, keys, readpercents) ==
    { [threads |-> n, ops_per_thread |-> o, reopen |-> r, max_key |-> k,
       log2_keys_per_lock |-> l, value_size_mult |-> 8,
       verify_before_write |-> v, readpercent |-> rp,
       writepercent |-> (100 - rp) \div 2,
       delpercent |-> (100 - rp) - (100 - rp) \div 2] :
        n \in threads, o \in ops, r \in 0 .. MaxOpsPerThread, k \in keys,
        l \in {0, 1}, v \in BOOLEAN, rp \in readpercents }

\* the check of main() on reopen and ops_per_thread
FlagsAccepted(F) == ~(F.reopen >= F.ops_per_thread)

\* SharedState::SharedState
SharedState ==
    [mu_ |-> Nobody, cv_ |-> {},
     num_initialized_ |-> 0, num_populated_ |-> 0, vote_reopen_ |-> 0,
     num_done_ |-> 0, start_ |-> FALSE, start_verify_ |-> FALSE,
     values_ |-> [k \in StressKeys |-> SENTINEL],
     key_locks_ |-> [l \in 0 .. (FLAGS.max_key - 1) \div (2 ^ FLAGS.log2_keys_per_lock)
                        |-> Nobody]]

IncInitialized(s) == [s EXCEPT !.num_initialized_ = @ + 1]
IncOperated(s) == [s EXCEPT !.num_populated_ = @ + 1]
IncDone(s) == [s EXCEPT !.num_done_ = @ + 1]
\* the vote count is never wrapped back to 0
IncVotedReopen_unwrapped(s) == [s EXCEPT !.vote_reopen_ = @ + 1]
IncVotedReopen(s) == [s EXCEPT !.vote_reopen_ = (@ + 1) % FLAGS.threads]
\* Run starts the workers as soon as one of them has initialized
AllInitialized_any(s) == s.num_initialized_ >= 1
AllInitialized(s) == s.num_initialized_ >= FLAGS.threads
AllOperated(s) == s.num_populated_ >= FLAGS.threads
AllDone(s) == s.num_done_ >= FLAGS.threads
\* the first voter of a round takes itself for the last
AllVotedReopen_first(s) == s.vote_reopen_ = 1 % FLAGS.threads
AllVotedReopen(s) == s.vote_reopen_ = 0
SetStart(s) == [s EXCEPT !.start_ = TRUE]
SetStartVerify(s) == [s EXCEPT !.start_verify_ = TRUE]
Started(s) == s.start_
VerifyStarted(s) == s.start_verify_

\* port::CondVar::SignalAll: every thread blocked in Wait is woken
SignalAll(s) == [s EXCEPT !.cv_ = {}]
\* port::CondVar::Wait, first half: release the mutex and block
Wait(s, who) == [s EXCEPT !.cv_ = @ \cup {who}, !.mu_ = Nobody]
\* MutexLock on SharedState::mu_ can be taken by who: the mutex is free and
\* who is not blocked in Wait
CanLock(who) == shared.mu_ = Nobody /\ who \notin shared.cv_

\* SharedState::GetMutexForKey: the index of the key's lock
GetMutexForKey(key) == key \div (2 ^ FLAGS.log2_keys_per_lock)
\* SharedState::Put, Delete and Get on the expected-value array
Shared_Put(s, key, value_base) == [s EXCEPT !.values_[key] = value_base]
Shared_Delete(s, key) == [s EXCEPT !.values_[key] = SENTINEL]
Shared_Get(s, key) == s.values_[key]
\* the workers do not wait for the key's lock
KeyLockFree_always(s, key) == TRUE
\* MutexLock l(GetMutexForKey(key)) can be taken: the key's lock is free
KeyLockFree(s, key) == s.key_locks_[GetMutexForKey(key)] = Nobody
LockKey(s, key, who) == [s EXCEPT !.key_locks_[GetMutexForKey(key)] = who]
UnlockKey(s, key) == [s EXCEPT !.key_locks_[GetMutexForKey(key)] = Nobody]

\* StressTest::GenerateValue: the length of the value and the bytes, which
\* start with rand itself and are all computed from it
GenerateValue(rand) ==
    [sz |-> ((rand % 3) + 1) * FLAGS.value_size_mult, rand |-> rand]

\* the database behind db_: for each key the value stored or none
NotFound == [s |-> "NotFound", sz |-> 0, rand |-> 0]
Found(v) == [s |-> "OK", sz |-> v.sz, rand |-> v.rand]
DB_Open == [open |-> TRUE, data |-> [k \in StressKeys |-> NotFound]]
DB_Get(db, key) == db.data[key]
DB_Put(db, key, v) == [db EXCEPT !.data[key] = Found(v)]
DB_Delete(db, key) == [db EXCEPT !.data[key] = NotFound]

\* StressTest::StressTest and the Open() at the start of Run
StressTest == [db_ |-> DB_Open, num_times_reopened_ |-> 0]

\* StressTest::Reopen up to db_ = nullptr and the count, and its Open()
Reopen_Destroy(T) ==
    [T EXCEPT !.db_.open = FALSE, !.num_times_reopened_ = @ + 1]
Reopen_Open(T) == [T EXCEPT !.db_.open = TRUE]

\* StressTest::VerifyValue: "ok", or the message of its VerificationAbort
VerifyValue(s, key, from_db, strict) ==
    LET value_base == Shared_Get(s, key) IN
    IF value_base = SENTINEL /\ ~strict THEN "ok"
    ELSE IF from_db.s = "OK"
         THEN IF value_base = SENTINEL THEN "Unexpected value found"
              ELSE IF from_db.sz # GenerateValue(value_base).sz
                   THEN "Length of value read is not equal"
              ELSE IF from_db.rand # GenerateValue(value_base).rand
                   THEN "Contents of value read don't match"
              ELSE "ok"
         ELSE IF value_base # SENTINEL THEN "Value not found" ELSE "ok"

\* OperateDb: iteration i starts with a reopen vote
VoteDue(i) ==
    i # 0 /\ i % (FLAGS.ops_per_thread \div (FLAGS.reopen + 1)) = 0

\* OperateDb: the operations prob_op can select under the percent flags
OpKinds ==
    {k \in {"read", "write", "delete"} :
        \/ k = "read" /\ FLAGS.readpercent > 0
        \/ k = "write" /\ FLAGS.writepercent > 0
        \/ k = "delete" /\ FLAGS.delpercent > 0}

\* VerifyDb: the keys thread tid verifies
VerifyRange(tid) ==
    LET keys_per_thread == FLAGS.max_key \div FLAGS.threads
        start == keys_per_thread * tid
        end == IF tid = FLAGS.threads - 1 THEN FLAGS.max_key
               ELSE start + keys_per_thread
    IN start .. end - 1

\* a worker thread before ThreadBody has run
ThreadState == [pc |-> "init", i |-> 0, rand_key |-> 0, value_base |-> 0]

At(t, where) == thread[t].pc = where
Goto(t, where) == [thread EXCEPT ![t].pc = where]
\* the end of one iteration of the loop of OperateDb
NextIteration(t) == [thread EXCEPT ![t].pc = "loop", ![t].i = @ + 1]
Running == exit_ = "no"

\* ThreadBody, first critical section: IncInitialized, the SignalAll of the
\* last thread, and the first test of Started
ThreadBody_Initialize(t) ==
    /\ Running /\ At(t, "init") /\ CanLock(t)
    /\ \E s \in {IF AllInitialized(IncInitialized(shared))
                 THEN SignalAll(IncInitialized(shared))
                 ELSE IncInitialized(shared)} :
          IF Started(s)
          THEN shared' = s /\ thread' = Goto(t, "loop")
          ELSE shared' = Wait(s, t) /\ thread' = Goto(t, "wait_start")
    /\ UNCHANGED <<FLAGS, test, run, exit_, batchVars, iterVars>>

\* ThreadBody: while (!Started()) Wait(), after a wake-up
ThreadBody_WaitStart(t) ==
    /\ Running /\ At(t, "wait_start") /\ CanLock(t)
    /\ IF Started(shared)
       THEN thread' = Goto(t, "loop") /\ shared' = shared
       ELSE shared' = Wait(shared, t) /\ thread' = thread
    /\ UNCHANGED <<FLAGS, test, run, exit_, batchVars, iterVars>>

\* OperateDb: the reopen vote at the head of iteration i. The last voter
\* runs Reopen, here up to db_ = nullptr, holding the mutex; the others Wait.
OperateDb_Vote(t) ==
    /\ Running /\ At(t, "loop") /\ thread[t].i < FLAGS.ops_per_thread
    /\ VoteDue(thread[t].i) /\ CanLock(t)
    /\ IF AllVotedReopen(IncVotedReopen(shared))
       THEN /\ shared' = [IncVotedReopen(shared) EXCEPT !.mu_ = t]
            /\ test' = Reopen_Destroy(test)
            /\ thread' = Goto(t, "reopen")
       ELSE /\ shared' = Wait(IncVotedReopen(shared), t)
            /\ test' = test
            /\ thread' = Goto(t, "wait_reopen")
    /\ UNCHANGED <<FLAGS, run, exit_, batchVars, iterVars>>

\* OperateDb: the Open() that ends Reopen, the SignalAll, the unlock
OperateDb_Reopened(t) ==
    /\ Running /\ At(t, "reopen")
    /\ test' = Reopen_Open(test)
    /\ shared' = [SignalAll(shared) EXCEPT !.mu_ = Nobody]
    /\ thread' = Goto(t, "op")
    /\ UNCHANGED <<FLAGS, run, exit_, batchVars, iterVars>>

\* OperateDb: a voter returns from Wait() and goes on to its operation
OperateDb_Resume(t) ==
    /\ Running /\ At(t, "wait_reopen") /\ CanLock(t)
    /\ thread' = Goto(t, "op")
    /\ UNCHANGED <<FLAGS, shared, test, run, exit_, batchVars, iterVars>>

\* OperateDb is about to pick the operation of iteration i
AtOperation(t) ==
    \/ At(t, "op")
    \/ /\ At(t, "loop") /\ thread[t].i < FLAGS.ops_per_thread
       /\ ~VoteDue(thread[t].i)

\* OperateDb: OPERATION read (db_->Get through the handle db_)
OperateDb_Read(t) ==
    /\ Running /\ AtOperation(t) /\ "read" \in OpKinds
    /\ IF test.db_.open
       THEN thread' = NextIteration(t) /\ exit_' = exit_
       ELSE thread' = thread /\ exit_' = "db_ is nullptr"
    /\ UNCHANGED <<FLAGS, shared, test, run, batchVars, iterVars>>

\* OperateDb: OPERATION write up to shared->Put: the key's lock is taken,
\* the value verified if asked, the expected value recorded
OperateDb_Write(t) ==
    /\ Running /\ AtOperation(t) /\ "write" \in OpKinds
    /\ \E rand_key \in StressKeys, value_base \in ValueBases :
          /\ KeyLockFree(shared, rand_key)
          /\ IF ~test.db_.open
             THEN /\ exit_' = "db_ is nullptr"
                  /\ UNCHANGED <<shared, thread>>
             ELSE IF /\ FLAGS.verify_before_write
                     /\ VerifyValue(shared, rand_key,
                                    DB_Get(test.db_, rand_key), TRUE) # "ok"
             THEN /\ exit_' = "verification"
                  /\ UNCHANGED <<shared, thread>>
             ELSE /\ exit_' = exit_
                  /\ shared' = Shared_Put(LockKey(shared, rand_key, t),
                                          rand_key, value_base)
                  /\ thread' = [thread EXCEPT
                                   ![t].pc = "write_db",
                                   ![t].rand_key = rand_key,
                                   ![t].value_base = value_base]
    /\ UNCHANGED <<FLAGS, test, run, batchVars, iterVars>>

\* OperateDb: OPERATION write from db_->Put (or Merge) to the unlock
OperateDb_WriteDb(t) ==
    /\ Running /\ At(t, "write_db")
    /\ IF test.db_.open
       THEN /\ test' = [test EXCEPT !.db_ =
                           DB_Put(@, thread[t].rand_key,
                                  GenerateValue(thread[t].value_base))]
            /\ shared' = UnlockKey(shared, thread[t].rand_key)
            /\ thread' = NextIteration(t)
            /\ exit_' = exit_
       ELSE /\ exit_' = "db_ is nullptr"
            /\ UNCHANGED <<shared, test, thread>>
    /\ UNCHANGED <<FLAGS, run, batchVars, iterVars>>

\* OperateDb: OPERATION delete up to shared->Delete
OperateDb_Delete(t) ==
    /\ Running /\ AtOperation(t) /\ "delete" \in OpKinds
    /\ \E rand_key \in StressKeys :
          /\ KeyLockFree(shared, rand_key)
          /\ shared' = Shared_Delete(LockKey(shared, rand_key, t), rand_key)
          /\ thread' = [thread EXCEPT ![t].pc = "delete_db",
                                      ![t].rand_key = rand_key]
    /\ UNCHANGED <<FLAGS, test, run, exit_, batchVars, iterVars>>

\* OperateDb: OPERATION delete from db_->Delete to the unlock
OperateDb_DeleteDb(t) ==
    /\ Running /\ At(t, "delete_db")
    /\ IF test.db_.open
       THEN /\ test' = [test EXCEPT !.db_ = DB_Delete(@, thread[t].rand_key)]
            /\ shared' = UnlockKey(shared, thread[t].rand_key)
            /\ thread' = NextIteration(t)
            /\ exit_' = exit_
       ELSE /\ exit_' = "db_ is nullptr"
            /\ UNCHANGED <<shared, test, thread>>
    /\ UNCHANGED <<FLAGS, run, batchVars, iterVars>>

\* ThreadBody, second critical section: OperateDb has returned
ThreadBody_Operated(t) ==
    /\ Running /\ At(t, "loop") /\ thread[t].i >= FLAGS.ops_per_thread
    /\ CanLock(t)
    /\ \E s \in {IF AllOperated(IncOperated(shared))
                 THEN SignalAll(IncOperated(shared))
                 ELSE IncOperated(shared)} :
          IF VerifyStarted(s)
          THEN shared' = s /\ thread' = Goto(t, "verify")
          ELSE shared' = Wait(s, t) /\ thread' = Goto(t, "wait_verify")
    /\ UNCHANGED <<FLAGS, test, run, exit_, batchVars, iterVars>>

\* ThreadBody: while (!VerifyStarted()) Wait(), after a wake-up
ThreadBody_WaitVerify(t) ==
    /\ Running /\ At(t, "wait_verify") /\ CanLock(t)
    /\ IF VerifyStarted(shared)
       THEN thread' = Goto(t, "verify") /\ shared' = shared
       ELSE shared' = Wait(shared, t) /\ thread' = thread
    /\ UNCHANGED <<FLAGS, test, run, exit_, batchVars, iterVars>>

\* VerifyDb: the strict VerifyValue of every key of the thread's range
VerifyDb(t) ==
    /\ Running /\ At(t, "verify")
    /\ IF ~test.db_.open
       THEN exit_' = "db_ is nullptr" /\ thread' = thread
       ELSE IF \E k \in VerifyRange(t) :
                  VerifyValue(shared, k, DB_Get(test.db_, k), TRUE) # "ok"
       THEN exit_' = "verification" /\ thread' = thread
       ELSE exit_' = exit_ /\ thread' = Goto(t, "finish")
    /\ UNCHANGED <<FLAGS, shared, test, run, batchVars, iterVars>>

\* ThreadBody, last critical section: IncDone and the last thread's SignalAll
ThreadBody_Done(t) ==
    /\ Running /\ At(t, "finish") /\ CanLock(t)
    /\ shared' = IF AllDone(IncDone(shared)) THEN SignalAll(IncDone(shared))
                 ELSE IncDone(shared)
    /\ thread' = Goto(t, "done")
    /\ UNCHANGED <<FLAGS, test, run, exit_, batchVars, iterVars>>

\* Run: MutexLock l(shared.GetMutex()), and the lock taken again by Wait
Run_Lock ==
    /\ Running /\ run # "stopped" /\ CanLock(Main)
    /\ shared' = [shared EXCEPT !.mu_ = Main]
    /\ UNCHANGED <<FLAGS, test, thread, run, exit_, batchVars, iterVars>>

\* Run: while (!AllInitialized()) Wait(); SetStart(); SignalAll()
Run_Start ==
    /\ Running /\ run = "wait_initialized" /\ shared.mu_ = Main
    /\ IF AllInitialized(shared)
       THEN shared' = SignalAll(SetStart(shared)) /\ run' = "wait_operated"
       ELSE shared' = Wait(shared, Main) /\ run' = run
    /\ UNCHANGED <<FLAGS, test, thread, exit_, batchVars, iterVars>>

\* Run: while (!AllOperated()) Wait(); SetStartVerify(); SignalAll()
Run_StartVerify ==
    /\ Running /\ run = "wait_operated" /\ shared.mu_ = Main
    /\ IF AllOperated(shared)
       THEN shared' = SignalAll(SetStartVerify(shared)) /\ run' = "wait_done"
       ELSE shared' = Wait(shared, Main) /\ run' = run
    /\ UNCHANGED <<FLAGS, test, thread, exit_, batchVars, iterVars>>

\* Run: while (!AllDone()) Wait(), then the end of the MutexLock scope
Run_Stop ==
    /\ Running /\ run = "wait_done" /\ shared.mu_ = Main
    /\ IF AllDone(shared)
       THEN shared' = [shared EXCEPT !.mu_ = Nobody] /\ run' = "stopped"
       ELSE shared' = Wait(shared, Main) /\ run' = run
    /\ UNCHANGED <<FLAGS, test, thread, exit_, batchVars, iterVars>>

\* the write batches play no part in the stress run
NoBatch ==
    /\ rep = WriteBatch /\ log = <<>> /\ src = WriteBatch /\ srclog = <<>>
    /\ op = [name |-> "WriteBatch"] /\ h = NoHandler /\ st = "none"
    /\ prev = NoRun /\ raw = NoDamage

\* Run after Open() and the StartThread calls, under flags F
RunStarted(F) ==
    /\ FLAGS = F
    /\ shared = SharedState
    /\ test = StressTest
    /\ thread = [t \in Tids |-> ThreadState]
    /\ run = "wait_initialized"
    /\ exit_ = "no"
    /\ NoBatch
    /\ NoIterator

\* a read-only workload under every accepted number of threads, operations
\* and reopens
InitStress ==
    \E F \in StressFlags(1 .. MaxThreads, 1 .. MaxOpsPerThread,
                           {1}, {100}) :
        /\ FlagsAccepted(F) /\ F.log2_keys_per_lock = 0
        /\ ~F.verify_before_write
        /\ RunStarted(F)

Worker(t) ==
    \/ ThreadBody_Initialize(t)
    \/ ThreadBody_WaitStart(t)
    \/ OperateDb_Vote(t)
    \/ OperateDb_Reopened(t)
    \/ OperateDb_Resume(t)
    \/ OperateDb_Read(t)
    \/ ThreadBody_Operated(t)
    \/ ThreadBody_WaitVerify(t)
    \/ VerifyDb(t)
    \/ ThreadBody_Done(t)

RunThread ==
    \/ Run_Lock
    \/ Run_Start
    \/ Run_StartVerify
    \/ Run_Stop

NextStress ==
    \/ \E t \in Tids : ThreadBody_Initialize(t)
    \/ \E t \in Tids : ThreadBody_WaitStart(t)
    \/ \E t \in Tids : OperateDb_Vote(t)
    \/ \E t \in Tids : OperateDb_Reopened(t)
    \/ \E t \in Tids : OperateDb_Resume(t)
    \/ \E t \in Tids : OperateDb_Read(t)
    \/ \E t \in Tids : ThreadBody_Operated(t)
    \/ \E t \in Tids : ThreadBody_WaitVerify(t)
    \/ \E t \in Tids : VerifyDb(t)
    \/ \E t \in Tids : ThreadBody_Done(t)
    \/ Run_Lock
    \/ Run_Start
    \/ Run_StartVerify
    \/ Run_Stop

SpecStress == InitStress /\ [][NextStress]_vars

\* fair scheduling: a thread that can take a step eventually takes one
SpecStressFair ==
    /\ SpecStress
    /\ \A t \in 0 .. MaxThreads - 1 : WF_vars(t \in Tids /\ Worker(t))
    /\ WF_vars(RunThread)

---------------------------------------------------------------------------
(* Properties of the stress harness.                                       *)

\* the phase of worker t: 0 initializing, 1 waiting for all to initialize,
\* 2 operating, 3 waiting for all to finish operating, 4 verifying, 5 done
Phase(t) ==
    CASE At(t, "init") -> 0
      [] At(t, "wait_start") -> 1
      [] At(t, "wait_verify") -> 3
      [] At(t, "verify") \/ At(t, "finish") -> 4
      [] At(t, "done") -> 5
      [] OTHER -> 2

\* nobody operates before all have initialized, nobody verifies before all
\* have finished operating
PhasesSeparated ==
    \A t \in Tids, u \in Tids :
        /\ Phase(t) >= 2 => Phase(u) >= 1
        /\ Phase(t) >= 4 => Phase(u) >= 3

\* C32: every step leaves each worker in its phase or moves it to the next
\* one of initializing, waiting for all to initialize, operating, waiting
\* for all to finish operating, verifying, done; and after every step no
\* worker is operating while another has not initialized, and no worker is
\* verifying while another has not finished operating.
C32_PhaseOrdering ==
    [][/\ \A t \in Tids :
              \/ Phase(t)' = Phase(t)
              \/ Phase(t)' = Phase(t) + 1
       /\ PhasesSeparated']_vars

\* one worker verifies while another, woken, has not yet left the wait for
\* the verification to start, and a third phase is visible in Run
C32_Witness ==
    /\ FLAGS.threads >= 2
    /\ \E t \in Tids, u \in Tids :
          /\ At(t, "finish") /\ At(u, "wait_verify")
          /\ thread[t].i > 1
    /\ run = "wait_done"

\* C33: when Run has stopped waiting, the database has been reopened exactly
\* FLAGS.reopen times, for every accepted pair of reopen and ops_per_thread.
C33_ReopensAsRequested ==
    run = "stopped" => test.num_times_reopened_ = FLAGS.reopen

\* the number of reopen votes worker t has cast so far
VotesCast(t) ==
    Cardinality({j \in 1 .. (IF At(t, "loop") \/ Phase(t) >= 3
                             THEN thread[t].i - 1 ELSE thread[t].i) :
                    VoteDue(j)})

\* worker t is blocked in the Wait() of the reopen vote
BlockedAtVote(t) == At(t, "wait_reopen") /\ t \in shared.cv_

\* the number of calls of Reopen that have returned
ReopensCompleted ==
    IF test.db_.open THEN test.num_times_reopened_
    ELSE test.num_times_reopened_ - 1

---------------------------------------------------------------------------
(* The stress run with writes and deletes: test_batches_snapshots off.     *)

\* a workload of reads, writes and deletes by two workers on MaxKey keys
InitShadow ==
    \E F \in StressFlags({2}, {2}, {MaxKey}, {40}) :
        /\ FlagsAccepted(F)
        /\ RunStarted(F)

NextShadow ==
    \/ \E t \in Tids : ThreadBody_Initialize(t)
    \/ \E t \in Tids : ThreadBody_WaitStart(t)
    \/ \E t \in Tids : OperateDb_Vote(t)
    \/ \E t \in Tids : OperateDb_Reopened(t)
    \/ \E t \in Tids : OperateDb_Resume(t)
    \/ \E t \in Tids : OperateDb_Read(t)
    \/ \E t \in Tids : OperateDb_Write(t)
    \/ \E t \in Tids : OperateDb_WriteDb(t)
    \/ \E t \in Tids : OperateDb_Delete(t)
    \/ \E t \in Tids : OperateDb_DeleteDb(t)
    \/ \E t \in Tids : ThreadBody_Operated(t)
    \/ \E t \in Tids : ThreadBody_WaitVerify(t)
    \/ \E t \in Tids : VerifyDb(t)
    \/ \E t \in Tids : ThreadBody_Done(t)
    \/ Run_Lock
    \/ Run_Start
    \/ Run_StartVerify
    \/ Run_Stop

SpecShadow == InitShadow /\ [][NextShadow]_vars

\* the database holds for key k what the expected-value array records
Corresponds(k) ==
    IF shared.values_[k] = SENTINEL
    THEN test.db_.data[k].s = "NotFound"
    ELSE /\ test.db_.data[k].s = "OK"
         /\ test.db_.data[k].rand = shared.values_[k]
         /\ test.db_.data[k].sz =
                ((shared.values_[k] % 3) + 1) * FLAGS.value_size_mult

\* C35: a worker between its update of the expected-value array and its
\* update of the database holds the lock of the key; whenever the lock of a
\* key is free, and so once all workers have finished operating, the
\* database holds for the key exactly the value the array records, or none
\* where the array holds the sentinel; and no verification aborts the run.
C35_ShadowCorresponds ==
    /\ \A t \in Tids :
          At(t, "write_db") \/ At(t, "delete_db") =>
              shared.key_locks_[GetMutexForKey(thread[t].rand_key)] = t
    /\ \A k \in StressKeys :
          \/ KeyLockFree(shared, k)
          \/ \A t \in Tids : Phase(t) >= 3
          => Corresponds(k)
    /\ exit_ = "no"

\* the run has ended after a reopen: key 0 holds a written value, and key 1,
\* on which each worker made its last write or delete, ends deleted
C35_Witness ==
    /\ run = "stopped" /\ test.num_times_reopened_ = 1
    /\ \A t \in Tids : At(t, "done") /\ thread[t].rand_key = 1
    /\ shared.values_[0] = 8 /\ shared.values_[1] = SENTINEL

---------------------------------------------------------------------------
(* The two-level iterator of table/two_level_iterator.cc: an iterator over *)
(* an index block whose values are the handles of data blocks, and over    *)
(* the data block the index iterator points at.                            *)
(*                                                                         *)
(* The index iterator, block_function_ and the data-block iterators it     *)
(* returns are collaborators. A table is a sequence of data blocks; block  *)
(* j holds keys of 3j-2 .. 3j-1 in order, its index entry has the key 3j   *)
(* and its handle is j. An iterator is a position in its block, 0 when it  *)
(* is not Valid; a block that cannot be read gives an iterator that is     *)
(* never Valid and reports the error.                                      *)

\* largest number of data blocks of a table
MaxBlocks == 3
\* largest number of positioning calls made on one iterator
MaxCalls == 3

\* a data block: without entries, with two entries, unreadable, or not in
\* the cache under a read tier that forbids I/O (status Incomplete)
BlockKinds == {"empty", "two", "IOError", "Corruption", "Incomplete"}

Tables ==
    { [index_status |-> s, blocks |-> b] :
        s \in {"OK"},
        b \in UNION { [1 .. n -> BlockKinds] : n \in 0 .. MaxBlocks } }
    \cup { [index_status |-> "Corruption", blocks |-> <<"two">>] }

\* the entries of data block j and the status of an iterator over it
Entries(j) ==
    IF table.blocks[j] = "two" THEN <<3 * j - 2, 3 * j - 1>> ELSE <<>>
BlockStatus(j) ==
    IF table.blocks[j] \in {"empty", "two"} THEN "OK" ELSE table.blocks[j]

NumBlocks == Len(table.blocks)
\* the targets of Seek: every key, and one past the last index key
Targets == 1 .. 3 * NumBlocks + 1

\* index_iter_: Valid, Seek, SeekToFirst, SeekToLast, Next, Prev, value
Index_Valid(p) == p # 0
Index_Seek(target) ==
    IF table.index_status = "OK" /\ \E j \in 1 .. NumBlocks : 3 * j >= target
    THEN CHOOSE j \in 1 .. NumBlocks :
             /\ 3 * j >= target
             /\ \A k \in 1 .. NumBlocks : 3 * k >= target => j <= k
    ELSE 0
Index_SeekToFirst ==
    IF table.index_status = "OK" /\ NumBlocks > 0 THEN 1 ELSE 0
Index_SeekToLast ==
    IF table.index_status = "OK" /\ NumBlocks > 0 THEN NumBlocks ELSE 0
Index_Next(p) == IF p < NumBlocks THEN p + 1 ELSE 0
Index_Prev(p) == p - 1

\* data_iter_ as an IteratorWrapper: iter is the block iterated, 0 for
\* nullptr, and pos the position in the block, 0 when not Valid
NullIter == [iter |-> 0, pos |-> 0]
\* block_function_: a new iterator over the block of the handle
block_function(handle) == [iter |-> handle, pos |-> 0]
Data_Valid(d) == d.iter # 0 /\ d.pos # 0
Data_status(d) == IF d.iter = 0 THEN "OK" ELSE BlockStatus(d.iter)
Data_key(d) == Entries(d.iter)[d.pos]
Data_Seek(d, target) ==
    LET e == Entries(d.iter) IN
    [d EXCEPT !.pos =
        IF \E i \in 1 .. Len(e) : e[i] >= target
        THEN CHOOSE i \in 1 .. Len(e) :
                 e[i] >= target /\ \A k \in 1 .. i - 1 : e[k] < target
        ELSE 0]
Data_SeekToFirst(d) ==
    [d EXCEPT !.pos = IF Len(Entries(d.iter)) > 0 THEN 1 ELSE 0]
Data_SeekToLast(d) == [d EXCEPT !.pos = Len(Entries(d.iter))]
Data_Next(d) ==
    [d EXCEPT !.pos = IF d.pos < Len(Entries(d.iter)) THEN d.pos + 1 ELSE 0]
Data_Prev(d) == [d EXCEPT !.pos = d.pos - 1]

\* TwoLevelIterator::TwoLevelIterator. replaced is history: the non-OK
\* statuses of the data iterators replaced so far, in order.
TwoLevelIterator ==
    [index_iter_ |-> 0, data_iter_ |-> NullIter, data_block_handle_ |-> 0,
     status_ |-> "OK", replaced |-> <<>>]

\* TwoLevelIterator::Valid
Valid(I) == Data_Valid(I.data_iter_)

\* SaveError overwrites the saved status with every later error
SaveError_latest(I, s) == IF s # "OK" THEN [I EXCEPT !.status_ = s] ELSE I
\* TwoLevelIterator::SaveError
SaveError(I, s) ==
    IF I.status_ = "OK" /\ s # "OK" THEN [I EXCEPT !.status_ = s] ELSE I

\* TwoLevelIterator::status
status(I) ==
    IF table.index_status # "OK" THEN table.index_status
    ELSE IF I.data_iter_.iter # 0 /\ Data_status(I.data_iter_) # "OK"
    THEN Data_status(I.data_iter_)
    ELSE I.status_

\* TwoLevelIterator::SetDataIterator
SetDataIterator(I, data_iter) ==
    LET s == Data_status(I.data_iter_)
        J == IF I.data_iter_.iter # 0
             THEN [SaveError(I, s) EXCEPT
                      !.replaced = IF s # "OK" THEN Append(@, s) ELSE @]
             ELSE I
    IN [J EXCEPT !.data_iter_ = data_iter]

\* TwoLevelIterator::InitDataBlock
InitDataBlock(I) ==
    IF ~Index_Valid(I.index_iter_) THEN SetDataIterator(I, NullIter)
    ELSE LET handle == I.index_iter_ IN
         IF I.data_iter_.iter # 0 /\ handle = I.data_block_handle_ THEN I
         ELSE SetDataIterator([I EXCEPT !.data_block_handle_ = handle],
                              block_function(handle))

\* the data iterator rests on nothing the loops do not skip
Skipped_nullOnly(d) == d.iter = 0
\* the loop condition of SkipEmptyDataBlocksForward and ...Backward
Skipped(d) ==
    d.iter = 0 \/ (~Data_Valid(d) /\ Data_status(d) # "Incomplete")

\* if (data_iter_.iter() != nullptr) data_iter_.<position>()
Positioned(I, d) == IF I.data_iter_.iter # 0 THEN [I EXCEPT !.data_iter_ = d] ELSE I

RECURSIVE SkipEmptyDataBlocksForward(_)
\* TwoLevelIterator::SkipEmptyDataBlocksForward
SkipEmptyDataBlocksForward(I) ==
    IF ~Skipped(I.data_iter_) THEN I
    ELSE IF ~Index_Valid(I.index_iter_) THEN SetDataIterator(I, NullIter)
    ELSE LET J == InitDataBlock(
                      [I EXCEPT !.index_iter_ = Index_Next(@)])
         IN SkipEmptyDataBlocksForward(
                Positioned(J, Data_SeekToFirst(J.data_iter_)))

RECURSIVE SkipEmptyDataBlocksBackward(_)
\* TwoLevelIterator::SkipEmptyDataBlocksBackward
SkipEmptyDataBlocksBackward(I) ==
    IF ~Skipped(I.data_iter_) THEN I
    ELSE IF ~Index_Valid(I.index_iter_) THEN SetDataIterator(I, NullIter)
    ELSE LET J == InitDataBlock(
                      [I EXCEPT !.index_iter_ = Index_Prev(@)])
         IN SkipEmptyDataBlocksBackward(
                Positioned(J, Data_SeekToLast(J.data_iter_)))

\* TwoLevelIterator::Seek
Seek(I, target) ==
    LET J == InitDataBlock([I EXCEPT !.index_iter_ = Index_Seek(target)])
    IN SkipEmptyDataBlocksForward(
           Positioned(J, Data_Seek(J.data_iter_, target)))

\* TwoLevelIterator::SeekToFirst
SeekToFirst(I) ==
    LET J == InitDataBlock([I EXCEPT !.index_iter_ = Index_SeekToFirst])
    IN SkipEmptyDataBlocksForward(
           Positioned(J, Data_SeekToFirst(J.data_iter_)))

\* TwoLevelIterator::SeekToLast
SeekToLast(I) ==
    LET J == InitDataBlock([I EXCEPT !.index_iter_ = Index_SeekToLast])
    IN SkipEmptyDataBlocksBackward(
           Positioned(J, Data_SeekToLast(J.data_iter_)))

\* TwoLevelIterator::Next
Iter_Next(I) ==
    SkipEmptyDataBlocksForward(
        [I EXCEPT !.data_iter_ = Data_Next(@)])

\* TwoLevelIterator::Prev
Iter_Prev(I) ==
    SkipEmptyDataBlocksBackward(
        [I EXCEPT !.data_iter_ = Data_Prev(@)])

\* a positioning call: what was called, with what target, from which key
\* and with which saved status, and how many calls have been made
Called(name, target) ==
    [name |-> name, target |-> target,
     from |-> IF Valid(it) THEN Data_key(it.data_iter_) ELSE 0,
     status_ |-> it.status_,
     calls |-> itop.calls + 1]

\* no positioning call has been made
NoCall == [name |-> "none", target |-> 0, from |-> 0, status_ |-> "OK",
           calls |-> 0]

MoreCalls == itop.calls < MaxCalls

DoSeek ==
    /\ MoreCalls
    /\ \E target \in Targets :
          /\ it' = Seek(it, target)
          /\ itop' = Called("Seek", target)
    /\ UNCHANGED <<table, batchVars, stressVars>>

DoSeekToFirst ==
    /\ MoreCalls
    /\ it' = SeekToFirst(it)
    /\ itop' = Called("SeekToFirst", 0)
    /\ UNCHANGED <<table, batchVars, stressVars>>

DoSeekToLast ==
    /\ MoreCalls
    /\ it' = SeekToLast(it)
    /\ itop' = Called("SeekToLast", 0)
    /\ UNCHANGED <<table, batchVars, stressVars>>

\* Next asserts Valid()
DoNext ==
    /\ MoreCalls /\ Valid(it)
    /\ it' = Iter_Next(it)
    /\ itop' = Called("Next", 0)
    /\ UNCHANGED <<table, batchVars, stressVars>>

\* Prev asserts Valid()
DoPrev ==
    /\ MoreCalls /\ Valid(it)
    /\ it' = Iter_Prev(it)
    /\ itop' = Called("Prev", 0)
    /\ UNCHANGED <<table, batchVars, stressVars>>

InitIter ==
    /\ table \in Tables
    /\ it = TwoLevelIterator
    /\ itop = NoCall
    /\ NoBatch
    /\ NoHarness

NextIter ==
    \/ DoSeek
    \/ DoSeekToFirst
    \/ DoSeekToLast
    \/ DoNext
    \/ DoPrev

SpecIter == InitIter /\ [][NextIter]_vars

---------------------------------------------------------------------------
(* Properties of the two-level iterator.                                   *)

Forward == itop.name \in {"Seek", "SeekToFirst", "Next"}
Backward == itop.name \in {"SeekToLast", "Prev"}

\* the least key a forward call may rest on, the greatest for a backward one
LowerBound ==
    CASE itop.name = "Seek" -> itop.target
      [] itop.name = "Next" -> itop.from + 1
      [] OTHER -> 1
UpperBound ==
    IF itop.name = "Prev" THEN itop.from - 1 ELSE 3 * NumBlocks

\* the blocks a forward call from key b on can rest on: those with an entry
\* at or after b, and those that report Incomplete, with an index key at or
\* after b; and the same for a backward call
RestsForward(b) ==
    {j \in 1 .. NumBlocks :
        /\ table.index_status = "OK" /\ 3 * j >= b
        /\ \/ table.blocks[j] = "Incomplete"
           \/ \E i \in 1 .. Len(Entries(j)) : Entries(j)[i] >= b}
RestsBackward(b) ==
    {j \in 1 .. NumBlocks :
        /\ table.index_status = "OK" /\ 3 * j - 2 <= b
        /\ \/ table.blocks[j] = "Incomplete"
           \/ \E i \in 1 .. Len(Entries(j)) : Entries(j)[i] <= b}

\* the iterator is Valid on an entry of a data block, or its data iterator
\* reports Incomplete, or the index is exhausted and there is no data iterator
AtRest ==
    \/ /\ Valid(it)
       /\ it.data_iter_.iter \in 1 .. NumBlocks
       /\ it.data_iter_.iter = it.index_iter_
       /\ it.data_iter_.pos \in 1 .. Len(Entries(it.data_iter_.iter))
    \/ /\ ~Valid(it) /\ it.data_iter_.iter # 0
       /\ it.data_iter_.iter = it.index_iter_
       /\ Data_status(it.data_iter_) = "Incomplete"
    \/ /\ ~Valid(it) /\ it.data_iter_.iter = 0
       /\ ~Index_Valid(it.index_iter_)

\* C37: after Seek, SeekToFirst, SeekToLast, Next or Prev the iterator is
\* Valid on an entry of a data block, or its data iterator reports
\* Incomplete, or the index is exhausted and there is no data iterator.
\* After a forward call it rests on the first block, from the index entry
\* the call started at, that holds an entry at or after the key asked for
\* or is Incomplete, on the first such entry if there is one; it is
\* without data iterator only if no such block remains. Symmetrically
\* backward.
C37_Positioned ==
    itop.name # "none" =>
        /\ AtRest
        /\ Forward =>
              IF RestsForward(LowerBound) = {} THEN it.data_iter_.iter = 0
              ELSE /\ it.data_iter_.iter \in RestsForward(LowerBound)
                   /\ \A j \in RestsForward(LowerBound) :
                          it.data_iter_.iter <= j
                   /\ Valid(it) <=>
                          table.blocks[it.data_iter_.iter] = "two"
                   /\ Valid(it) =>
                          /\ Data_key(it.data_iter_) >= LowerBound
                          /\ \A i \in 1 .. it.data_iter_.pos - 1 :
                                Entries(it.data_iter_.iter)[i] < LowerBound
        /\ Backward =>
              IF RestsBackward(UpperBound) = {} THEN it.data_iter_.iter = 0
              ELSE /\ it.data_iter_.iter \in RestsBackward(UpperBound)
                   /\ \A j \in RestsBackward(UpperBound) :
                          it.data_iter_.iter >= j
                   /\ Valid(it) <=>
                          table.blocks[it.data_iter_.iter] = "two"
                   /\ Valid(it) =>
                          /\ Data_key(it.data_iter_) <= UpperBound
                          /\ \A i \in it.data_iter_.pos + 1 ..
                                      Len(Entries(it.data_iter_.iter)) :
                                Entries(it.data_iter_.iter)[i] > UpperBound

\* a Next from the last entry of the first block has passed an empty block
\* and rests on the first entry of the third
C37_Witness ==
    /\ table.blocks = <<"two", "empty", "two">>
    /\ itop.name = "Next" /\ itop.from = 2
    /\ Valid(it) /\ Data_key(it.data_iter_) = 7

\* the first non-OK status among those of the data iterators replaced
FirstError == IF it.replaced = <<>> THEN "OK" ELSE it.replaced[1]

\* C38: the saved status is the first non-OK status reported by a data
\* iterator at the time it was replaced, OK if there was none; a saved error
\* is left as it was by every later call; and status() is the index
\* iterator's error if it has one, else the current data iterator's error if
\* it has one, else that first saved error, else OK.
C38_StickyError ==
    /\ it.status_ = FirstError
    /\ itop.status_ # "OK" => it.status_ = itop.status_
    /\ status(it) =
          IF table.index_status # "OK" THEN table.index_status
          ELSE IF it.data_iter_.iter # 0
                  /\ BlockStatus(it.data_iter_.iter) # "OK"
          THEN BlockStatus(it.data_iter_.iter)
          ELSE FirstError

\* a second call has replaced a data iterator with a different error after
\* the first error was saved; the iterator is Valid, so status() gives the
\* saved error
C38_Witness ==
    /\ Len(it.replaced) >= 2
    /\ it.replaced[1] = "IOError" /\ it.replaced[2] = "Corruption"
    /\ itop.calls >= 2 /\ itop.status_ = "IOError"
    /\ Valid(it) /\ status(it) = "IOError"

====
